---- MODULE Spec2Model ----
(***************************************************************************)
(* Verification model of the rubric evaluation system                      *)
(* (Evaluator_assistant_for_teacher).                                      *)
(*                                                                         *)
(* Units.  Python floats are modelled in exact fixed point:                *)
(*   - a grade (nota) is an integer number of hundredths: 7.0 is 700;      *)
(*   - a percentage / score is an integer number of hundredths of a        *)
(*     percentage point: 100% is 10000, 65% is 6500;                       *)
(*   - the int score of a ResultadoCriterio is a plain integer 0..100.     *)
(* Where the code compares the result of float arithmetic on such values   *)
(* with a threshold (MonitoringAgent, RecommendationAgent), the model      *)
(* keeps the exact value together with the direction in which IEEE-754     *)
(* double arithmetic rounds it, for the sample values it uses.             *)
(*                                                                         *)
(* Specifications:                                                         *)
(*   Spec       EvaluadorMasivo.evaluar_todos (scripts/evaluate_batch.py)  *)
(*   SpecClase  AgentsManager.evaluate_class_with_agents                   *)
(*   SpecParse  LLMEvaluator._parse_evaluation_response and its fallback   *)
(*   SpecNota   the two percentage-to-grade converters of kedro_evaluator  *)
(*   SpecProyecto  one call of KedroEvaluator.evaluar_proyecto             *)
(*   SpecRubrica   RubricaEvaluator.load_rubrica_from_dict followed by     *)
(*                 evaluate_repository                                     *)
(*   SpecEvaluaciones  either producer of an evaluation record:            *)
(*                 SpecProyecto or SpecRubrica                             *)
(*   SpecAnalisis  one call of a method of AnalysisAgent                   *)
(*   SpecMonitoreo MonitoringAgent.monitor_student_progress and            *)
(*                 generate_alerts                                         *)
(*   SpecRuta      RecommendationAgent.create_learning_path                *)
(*   SpecPrompt    the level descriptors of the evaluation prompt          *)
(***************************************************************************)
EXTENDS Integers, Sequences, FiniteSets, TLC

VARIABLES
    \* ---- EvaluadorMasivo.evaluar_todos ----
    pc,            \* position of the main thread inside evaluar_todos
    estudiantes,   \* the input list (one record per subject)
    paralelo,      \* the paralelo argument
    indice,        \* sequential mode: index of the next subject of the for loop
    futuros,       \* parallel mode: state of each submitted future
    retornos,      \* parallel mode: what each finished future holds
    evaluaciones_exitosas,  \* list of <<nombre, evaluacion>>
    evaluaciones_fallidas,  \* list of nombre
    resultados,    \* self.resultados
    estadisticas,  \* the dictionary evaluar_todos returns
    \* ---- AgentsManager.evaluate_class_with_agents ----
    cpc,           \* position inside evaluate_class_with_agents
    students_data, \* the input list
    cindice,       \* index of the next student of the for loop
    all_results,   \* list of per-student results, each tagged with its student
    all_evaluations,
    class_results, \* the dictionary evaluate_class_with_agents returns
    \* ---- LLMEvaluator._parse_evaluation_response ----
    ppc,           \* "entrada" before the call, "salida" after it
    response,      \* the raw backend response
    resultado,     \* the ResultadoCriterio returned
    \* ---- percentage-to-grade converters ----
    npc,           \* "entrada" before the call, "salida" after it
    porcentaje,    \* the input percentage (hundredths of a point)
    nota_kedro,    \* KedroEvaluator._porcentaje_a_nota_chilena(porcentaje)
    nota_eval,     \* EvaluacionKedro.calcular_nota_escala_chilena()
    \* ---- KedroEvaluator.evaluar_proyecto ----
    epc,           \* "entrada" before the call, "returned" / "raised" after it
    repo,          \* what the hosting API answers for the repository
    aplicar_bonificaciones,  \* the aplicar_bonificaciones argument
    evaluacion_kedro, \* the EvaluacionKedro returned
    \* ---- RubricaEvaluator.load_rubrica_from_dict / evaluate_repository ----
    rpc,           \* position: "load", "estructura", "criterios", then the outcome
    rubrica_dict,  \* rubrica_dict['criterios'], the definition to load
    use_advanced,  \* self.use_advanced
    rubrica,       \* the list load_rubrica_from_dict returned
    resultados_criterios,  \* the list resultados being built
    llamadas,      \* what the backend did at each evaluate_criterion call
    evaluacion_completa,   \* the EvaluacionCompleta returned
    \* ---- AnalysisAgent ----
    apc,           \* "entrada" before the call, then "returned" or what it raised
    provider,      \* self.provider (Config.LLM_PROVIDER)
    metodo,        \* the method of AnalysisAgent that is called
    evaluations,   \* the evaluations argument: the nota_final of each record
    backend,       \* what the backend does when it is called
    llamadas_backend,  \* how many times the backend was called
    insights,      \* the list returned
    \* ---- MonitoringAgent ----
    mpc,           \* "entrada" before the call, then the method that was called
    student_evaluations,  \* the list of evaluation dictionaries passed
    tendencia,     \* monitor_student_progress: the tendencia returned
    alerts,        \* generate_alerts: the list returned
    \* ---- RecommendationAgent.create_learning_path ----
    lpc,           \* "entrada" before the call, then "returned" or what it raised
    notas_finales, \* the nota_final of each evaluation of the evaluations argument
    recommendations,  \* what generate_personalized_recommendations returned
    nivel_actual,  \* LearningPath.nivel_actual
    cronograma,    \* LearningPath.cronograma, the titles by week
    \* ---- the level descriptors of the evaluation prompt ----
    qpc,           \* "entrada" before the call, "salida" after it
    evaluador,     \* the class whose method writes the lines
    niveles,       \* the keys of criterio.niveles, in dictionary order
    lineas         \* the lines written, one per level

varsMasivo == <<pc, estudiantes, paralelo, indice, futuros, retornos,
                evaluaciones_exitosas, evaluaciones_fallidas, resultados,
                estadisticas>>
varsClase == <<cpc, students_data, cindice, all_results, all_evaluations,
               class_results>>
varsParse == <<ppc, response, resultado>>
varsNota == <<npc, porcentaje, nota_kedro, nota_eval>>
varsProyecto == <<epc, repo, aplicar_bonificaciones, evaluacion_kedro>>
varsRubrica == <<rpc, rubrica_dict, use_advanced, rubrica, resultados_criterios,
                 llamadas, evaluacion_completa>>
varsMonitoreo == <<mpc, student_evaluations, tendencia, alerts>>
varsRuta == <<lpc, notas_finales, recommendations, nivel_actual, cronograma>>
varsPrompt == <<qpc, evaluador, niveles, lineas>>
varsAnalisis == <<apc, provider, metodo, evaluations, backend, llamadas_backend,
                  insights>>
vars == <<varsMasivo, varsClase, varsParse, varsNota, varsProyecto, varsRubrica,
          varsAnalisis, varsMonitoreo, varsRuta, varsPrompt>>

(***************************************************************************)
(* Bounds of the model.                                                    *)
(***************************************************************************)
MaxEstudiantes == 3
MaxParalelo == 2
MaxClase == 3
MaxTokens == 3
MaxCriterios == 2
MaxEvaluaciones == 2
MaxHistorial == 3
MaxClaseMonitoreo == 2
MaxNotas == 3
MaxRecomendaciones == 4
MaxNiveles == 2

(***************************************************************************)
(* One entry point runs at a time: the state of the others rests.          *)
(***************************************************************************)
\* What a variable holds while nothing has been stored in it: Python's None,
\* the empty statistics dictionary, a result not yet built.
None ==
    [evaluacion |->
        [estudiante_nombre |-> 0, nota_final |-> 0, porcentaje_total |-> 0,
         estado |-> "None", n_criterios |-> 0, resumen_general |-> "None"],
     estadisticas |->
        [vacio |-> TRUE, total_evaluados |-> 0, aprobados |-> 0,
         reprobados |-> 0, suma_notas |-> 0, nota_minima |-> 0,
         nota_maxima |-> 0, evaluaciones_fallidas |-> <<>>],
     retorno |->
        [propaga |-> FALSE, nombre |-> 0,
         evaluacion |->
            [estudiante_nombre |-> 0, nota_final |-> 0, porcentaje_total |-> 0,
             estado |-> "None", n_criterios |-> 0, resumen_general |-> "None"]],
     class_results |->
        [total_estudiantes |-> 0, suma_notas |-> 0, nota_maxima |-> 0,
         nota_minima |-> 0, evaluaciones_individuales |-> <<>>],
     response |-> [es_texto |-> FALSE, toks |-> <<>>],
     resultado |->
        [ruta |-> "ninguna", puntuacion |-> 0, nota |-> 0,
         retroalimentacion |-> [plantilla |-> "ninguna", s |-> <<>>],
         evidencias |-> <<>>, sugerencias |-> <<>>],
     repo |->
        [acceso |-> "idle", directorios |-> {}, archivos |-> {}, datasets |-> 0,
         pipelines |-> 0, notebooks |-> 0, readme |-> FALSE, tests |-> FALSE,
         otros |-> 0],
     evaluacion_kedro |->
        [estado |-> "None", nota_final |-> 0, porcentaje_total |-> 0,
         puntuacion_total |-> 0, criterios_evaluados |-> <<>>,
         bonificaciones_aplicadas |-> [kedro_viz |-> 0, tests_unitarios |-> 0],
         penalizaciones_aplicadas |->
            [datasets_faltantes |-> 0, sin_estructura_kedro |-> 0]],
     evaluacion_completa |-> [criterios |-> <<>>, nota_final |-> 0]]

\* The state of every entry point other than g before it is called.
Reposo(g) ==
    /\ IF g = "masivo" THEN TRUE ELSE
          /\ pc = "idle"
          /\ estudiantes = <<>>
          /\ paralelo = 1
          /\ indice = 1
          /\ futuros = <<>>
          /\ retornos = <<>>
          /\ evaluaciones_exitosas = <<>>
          /\ evaluaciones_fallidas = <<>>
          /\ resultados = <<>>
          /\ estadisticas = None.estadisticas
    /\ IF g = "clase" THEN TRUE ELSE
          /\ cpc = "idle"
          /\ students_data = <<>>
          /\ cindice = 1
          /\ all_results = <<>>
          /\ all_evaluations = <<>>
          /\ class_results = None.class_results
    /\ IF g = "parse" THEN TRUE ELSE
          /\ ppc = "idle"
          /\ response = None.response
          /\ resultado = None.resultado
    /\ IF g = "nota" THEN TRUE ELSE
          /\ npc = "idle"
          /\ porcentaje = 0
          /\ nota_kedro = 0
          /\ nota_eval = 0
    /\ IF g = "proyecto" THEN TRUE ELSE
          /\ epc = "idle"
          /\ repo = None.repo
          /\ aplicar_bonificaciones = FALSE
          /\ evaluacion_kedro = None.evaluacion_kedro
    /\ IF g = "rubrica" THEN TRUE ELSE
          /\ rpc = "idle"
          /\ rubrica_dict = <<>>
          /\ use_advanced = FALSE
          /\ rubrica = <<>>
          /\ resultados_criterios = <<>>
          /\ llamadas = <<>>
          /\ evaluacion_completa = None.evaluacion_completa
    /\ IF g = "analisis" THEN TRUE ELSE
          /\ apc = "idle"
          /\ provider = "idle"
          /\ metodo = "idle"
          /\ evaluations = <<>>
          /\ backend = [falla |-> TRUE, resp |-> None.response]
          /\ llamadas_backend = 0
          /\ insights = <<>>
    /\ IF g = "monitoreo" THEN TRUE ELSE
          /\ mpc = "idle"
          /\ student_evaluations = <<>>
          /\ tendencia = "idle"
          /\ alerts = <<>>
    /\ IF g = "ruta" THEN TRUE ELSE
          /\ lpc = "idle"
          /\ notas_finales = <<>>
          /\ recommendations = <<>>
          /\ nivel_actual = "idle"
          /\ cronograma = <<>>
    /\ IF g = "prompt" THEN TRUE ELSE
          /\ qpc = "idle"
          /\ evaluador = "idle"
          /\ niveles = <<>>
          /\ lineas = <<>>

\* A step of entry point g leaves the state of the others as it is.
Resto(g) ==
    /\ IF g = "masivo" THEN TRUE ELSE UNCHANGED varsMasivo
    /\ IF g = "clase" THEN TRUE ELSE UNCHANGED varsClase
    /\ IF g = "parse" THEN TRUE ELSE UNCHANGED varsParse
    /\ IF g = "nota" THEN TRUE ELSE UNCHANGED varsNota
    /\ IF g = "proyecto" THEN TRUE ELSE UNCHANGED varsProyecto
    /\ IF g = "rubrica" THEN TRUE ELSE UNCHANGED varsRubrica
    /\ IF g = "analisis" THEN TRUE ELSE UNCHANGED varsAnalisis
    /\ IF g = "monitoreo" THEN TRUE ELSE UNCHANGED varsMonitoreo
    /\ IF g = "ruta" THEN TRUE ELSE UNCHANGED varsRuta
    /\ IF g = "prompt" THEN TRUE ELSE UNCHANGED varsPrompt

(***************************************************************************)
(* Generic helpers.                                                        *)
(***************************************************************************)
Max2(a, b) == IF a >= b THEN a ELSE b
Min2(a, b) == IF a <= b THEN a ELSE b

RECURSIVE SumSeq(_)
SumSeq(s) == IF s = <<>> THEN 0 ELSE Head(s) + SumSeq(Tail(s))

RECURSIVE MaxSeq(_)
MaxSeq(s) == IF Len(s) = 1 THEN s[1] ELSE Max2(s[1], MaxSeq(Tail(s)))

RECURSIVE MinSeq(_)
MinSeq(s) == IF Len(s) = 1 THEN s[1] ELSE Min2(s[1], MinSeq(Tail(s)))

SeqsUpTo(S, n) == UNION {[1..k -> S] : k \in 0..n}

(***************************************************************************)
(* Percentage-to-grade conversion (kedro_evaluator.py).                    *)
(***************************************************************************)
\* The table with the grades of the 20% and 10% steps exchanged.
escala_lista_intercambiada ==
    << <<10000, 700>>, <<9000, 650>>, <<8000, 600>>, <<7000, 550>>,
       <<6000, 500>>, <<5000, 450>>, <<4000, 400>>, <<3000, 350>>,
       <<2000, 200>>, <<1000, 300>>, <<0, 100>> >>

\* The list literal of KedroEvaluator._porcentaje_a_nota_chilena, in the
\* order the code writes it.
escala_lista ==
    << <<10000, 700>>, <<9000, 650>>, <<8000, 600>>, <<7000, 550>>,
       <<6000, 500>>, <<5000, 450>>, <<4000, 400>>, <<3000, 350>>,
       <<2000, 300>>, <<1000, 200>>, <<0, 100>> >>

\* for umbral, nota in escala: if porcentaje >= umbral: return nota
RECURSIVE RecorrerEscala(_, _, _)
RecorrerEscala(esc, p, i) ==
    IF i > Len(esc) THEN 100
    ELSE IF p >= esc[i][1] THEN esc[i][2]
    ELSE RecorrerEscala(esc, p, i + 1)

\* A scan that compares with > instead of >=.
RECURSIVE RecorrerEscalaEstricto(_, _, _)
RecorrerEscalaEstricto(esc, p, i) ==
    IF i > Len(esc) THEN 100
    ELSE IF p > esc[i][1] THEN esc[i][2]
    ELSE RecorrerEscalaEstricto(esc, p, i + 1)

PorcentajeANotaChilenaEstricto(p) == RecorrerEscalaEstricto(escala_lista, p, 1)

PorcentajeANotaChilena(p) == RecorrerEscala(escala_lista, p, 1)

\* The dict literal of EvaluacionKedro.calcular_nota_escala_chilena.
escala_dict ==
    [k \in {10000, 9000, 8000, 7000, 6000, 5000, 4000, 3000, 2000, 1000, 0} |->
        CASE k = 10000 -> 700 [] k = 9000 -> 650 [] k = 8000 -> 600
          [] k = 7000 -> 550 [] k = 6000 -> 500 [] k = 5000 -> 450
          [] k = 4000 -> 400 [] k = 3000 -> 350 [] k = 2000 -> 300
          [] k = 1000 -> 200 [] k = 0 -> 100]

\* sorted(escala.items(), reverse=True): the items by descending key.
RECURSIVE SortedItemsReverse(_, _)
SortedItemsReverse(d, keys) ==
    IF keys = {} THEN <<>>
    ELSE LET k == CHOOSE x \in keys : \A y \in keys : y <= x
         IN <<<<k, d[k]>>>> \o SortedItemsReverse(d, keys \ {k})

CalcularNotaEscalaChilena(porcentaje_total) ==
    RecorrerEscala(SortedItemsReverse(escala_dict, DOMAIN escala_dict),
                   porcentaje_total, 1)

(***************************************************************************)
(* KedroEvaluator.evaluar_proyecto (kedro_evaluator.py).                   *)
(*                                                                         *)
(* A subject of the batch is a record                                      *)
(*   nombre            the subject's name (its position in the input)      *)
(*   acceso            outcome of self.github.get_repo and of the analysis:*)
(*                     "ok", "github_exc" (get_repo raises GithubException) *)
(*                     or "otra_exc" (any other exception escapes)         *)
(*   puntuacion_total  the weighted score after bonuses and penalties      *)
(*   guardar_ok        whether guardar_evaluacion_individual succeeds      *)
(***************************************************************************)
\* len(self.rubrica["criterios"]) of create_kedro_ml_rubrica().
NumCriteriosKedro == 10

CrearEvaluacionError(estudiante) ==
    [estudiante_nombre |-> estudiante, nota_final |-> 100, porcentaje_total |-> 0,
     estado |-> "ERROR", n_criterios |-> 0,
     resumen_general |-> "Error al evaluar"]

\* evaluar_proyecto without the except GithubException clause.
EvaluarProyectoSinExcept(est) ==
    IF est.acceso # "ok"
    THEN [raised |-> TRUE, ev |-> None.evaluacion]
    ELSE LET porcentaje_final == Max2(0, Min2(10000, est.puntuacion_total))
             nota == PorcentajeANotaChilena(porcentaje_final)
         IN [raised |-> FALSE,
             ev |-> [estudiante_nombre |-> est.nombre, nota_final |-> nota,
                     porcentaje_total |-> porcentaje_final,
                     estado |-> IF nota >= 400 THEN "APROBADO" ELSE "REPROBADO",
                     n_criterios |-> NumCriteriosKedro,
                     resumen_general |-> "Proyecto evaluado"]]

EvaluarProyecto(est) ==
    IF est.acceso = "otra_exc"
    THEN [raised |-> TRUE, ev |-> None.evaluacion]
    ELSE IF est.acceso = "github_exc"
    THEN [raised |-> FALSE, ev |-> CrearEvaluacionError(est.nombre)]
    ELSE LET porcentaje_final == Max2(0, Min2(10000, est.puntuacion_total))
             nota_final == PorcentajeANotaChilena(porcentaje_final)
         IN [raised |-> FALSE,
             ev |-> [estudiante_nombre |-> est.nombre, nota_final |-> nota_final,
                     porcentaje_total |-> porcentaje_final,
                     estado |-> IF nota_final >= 400 THEN "APROBADO" ELSE "REPROBADO",
                     n_criterios |-> NumCriteriosKedro,
                     resumen_general |-> "Proyecto evaluado"]]

(***************************************************************************)
(* EvaluadorMasivo (scripts/evaluate_batch.py).                            *)
(***************************************************************************)
\* evaluar_estudiante without its try/except: the exception leaves the unit.
EvaluarEstudianteSinTry(est) ==
    LET p == EvaluarProyecto(est)
    IN IF p.raised \/ ~est.guardar_ok
       THEN [propaga |-> TRUE, nombre |-> est.nombre, evaluacion |-> None.evaluacion]
       ELSE [propaga |-> FALSE, nombre |-> est.nombre, evaluacion |-> p.ev]

\* evaluar_estudiante: evaluar_proyecto, then guardar_evaluacion_individual,
\* both inside try; except Exception returns (nombre, None).
EvaluarEstudiante(est) ==
    LET p == EvaluarProyecto(est)
    IN IF p.raised
       THEN [propaga |-> FALSE, nombre |-> est.nombre, evaluacion |-> None.evaluacion]
       ELSE IF ~est.guardar_ok
       THEN [propaga |-> FALSE, nombre |-> est.nombre, evaluacion |-> None.evaluacion]
       ELSE [propaga |-> FALSE, nombre |-> est.nombre, evaluacion |-> p.ev]

\* "if evaluacion:" : None is falsy, an EvaluacionKedro instance is truthy.
Truthy(evaluacion) == evaluacion # None.evaluacion

\* generar_estadisticas with the count taken over every input subject.
GenerarEstadisticasSobreTodos(evals) ==
    IF evals = <<>> THEN None.estadisticas
    ELSE LET notas == [i \in 1..Len(evals) |-> evals[i][2].nota_final]
             aprobados == {i \in 1..Len(evals) : evals[i][2].estado = "APROBADO"}
         IN [vacio |-> FALSE,
             total_evaluados |-> Len(estudiantes),
             aprobados |-> Cardinality(aprobados),
             reprobados |-> Len(estudiantes) - Cardinality(aprobados),
             suma_notas |-> SumSeq(notas),
             nota_minima |-> MinSeq(notas),
             nota_maxima |-> MaxSeq(notas),
             evaluaciones_fallidas |-> <<>>]

\* generar_estadisticas: {} for an empty list; nota_promedio is
\* suma_notas / total_evaluados and porcentaje_aprobacion is
\* aprobados / total_evaluados * 100, kept here as their numerators.
GenerarEstadisticas(evals) ==
    IF evals = <<>> THEN None.estadisticas
    ELSE LET notas == [i \in 1..Len(evals) |-> evals[i][2].nota_final]
             aprobados == {i \in 1..Len(evals) : evals[i][2].estado = "APROBADO"}
         IN [vacio |-> FALSE,
             total_evaluados |-> Len(evals),
             aprobados |-> Cardinality(aprobados),
             reprobados |-> Len(evals) - Cardinality(aprobados),
             suma_notas |-> SumSeq(notas),
             nota_minima |-> MinSeq(notas),
             nota_maxima |-> MaxSeq(notas),
             evaluaciones_fallidas |-> <<>>]

\* The else branch of the collecting loop dropped: a failed unit is not recorded.
FallidasTrasSinElse(r) == evaluaciones_fallidas

\* The success put at the front of the list instead of at its end.
ExitosasTrasAlFrente(r) ==
    IF Truthy(r.evaluacion)
    THEN <<<<r.nombre, r.evaluacion>>>> \o evaluaciones_exitosas
    ELSE evaluaciones_exitosas

\* The if/else on a unit's return value (lines 149-153 and 158-162).
ExitosasTras(r) ==
    IF Truthy(r.evaluacion)
    THEN Append(evaluaciones_exitosas, <<r.nombre, r.evaluacion>>)
    ELSE evaluaciones_exitosas

ResultadosTras(r) ==
    IF Truthy(r.evaluacion) THEN Append(resultados, r.evaluacion) ELSE resultados

FallidasTras(r) ==
    IF Truthy(r.evaluacion)
    THEN evaluaciones_fallidas
    ELSE Append(evaluaciones_fallidas, r.nombre)

\* Two weighted totals evaluar_proyecto can reach: 39.5 and 85, its maximum.
Casos ==
    {[acceso |-> "ok", puntuacion_total |-> p, guardar_ok |-> g] :
        p \in {3950, 8500}, g \in BOOLEAN}
    \cup {[acceso |-> "github_exc", puntuacion_total |-> 0, guardar_ok |-> g] :
        g \in BOOLEAN}
    \cup {[acceso |-> "otra_exc", puntuacion_total |-> 0, guardar_ok |-> TRUE]}

InitMasivo ==
    /\ pc = "inicio"
    /\ estudiantes \in
          {[i \in 1..Len(cs) |->
               [nombre |-> i, acceso |-> cs[i].acceso,
                puntuacion_total |-> cs[i].puntuacion_total,
                guardar_ok |-> cs[i].guardar_ok]] :
             cs \in SeqsUpTo(Casos, MaxEstudiantes)}
    /\ paralelo \in 1..MaxParalelo
    /\ indice = 1
    /\ futuros = [i \in 1..Len(estudiantes) |-> "no_enviado"]
    /\ retornos = [i \in 1..Len(estudiantes) |-> None.retorno]
    /\ evaluaciones_exitosas = <<>>
    /\ evaluaciones_fallidas = <<>>
    /\ resultados = <<>>
    /\ estadisticas = None.estadisticas
    /\ Reposo("masivo")

\* Lines 139-145 / 154-156: choose the mode; in parallel mode every subject
\* is submitted to the executor before as_completed is entered.
Iniciar ==
    /\ pc = "inicio"
    /\ IF paralelo > 1
       THEN /\ futuros' = [i \in 1..Len(estudiantes) |-> "pendiente"]
            /\ pc' = "as_completed"
       ELSE /\ futuros' = futuros
            /\ pc' = "for"
    /\ UNCHANGED <<estudiantes, paralelo, indice, retornos, evaluaciones_exitosas,
                   evaluaciones_fallidas, resultados, estadisticas>>
    /\ Resto("masivo")

\* A free worker of the pool (max_workers = paralelo) takes the oldest
\* pending work item.
TrabajadorToma(i) ==
    /\ pc = "as_completed"
    /\ futuros[i] = "pendiente"
    /\ \A j \in 1..(i - 1) : futuros[j] # "pendiente"
    /\ Cardinality({j \in DOMAIN futuros : futuros[j] = "corriendo"}) < paralelo
    /\ futuros' = [futuros EXCEPT ![i] = "corriendo"]
    /\ UNCHANGED <<pc, estudiantes, paralelo, indice, retornos,
                   evaluaciones_exitosas, evaluaciones_fallidas, resultados,
                   estadisticas>>
    /\ Resto("masivo")

\* A worker that stores its own result in self.resultados when it ends.
TrabajadorTerminaYAnota(i) ==
    /\ pc = "as_completed"
    /\ futuros[i] = "corriendo"
    /\ futuros' = [futuros EXCEPT ![i] = "terminado"]
    /\ retornos' = [retornos EXCEPT ![i] = EvaluarEstudiante(estudiantes[i])]
    /\ resultados' = ResultadosTras(EvaluarEstudiante(estudiantes[i]))
    /\ UNCHANGED <<pc, estudiantes, paralelo, indice, evaluaciones_exitosas,
                   evaluaciones_fallidas, estadisticas>>
    /\ Resto("masivo")

\* The worker runs evaluar_estudiante to its end and completes the future.
TrabajadorTermina(i) ==
    /\ pc = "as_completed"
    /\ futuros[i] = "corriendo"
    /\ futuros' = [futuros EXCEPT ![i] = "terminado"]
    /\ retornos' = [retornos EXCEPT ![i] = EvaluarEstudiante(estudiantes[i])]
    /\ UNCHANGED <<pc, estudiantes, paralelo, indice, evaluaciones_exitosas,
                   evaluaciones_fallidas, resultados, estadisticas>>
    /\ Resto("masivo")

\* One iteration of "for futuro in as_completed(futuros)" (lines 147-153):
\* any finished future not yet yielded; futuro.result() re-raises what the
\* unit raised.
Recolectar(i) ==
    /\ pc = "as_completed"
    /\ futuros[i] = "terminado"
    /\ futuros' = [futuros EXCEPT ![i] = "recogido"]
    /\ LET r == retornos[i]
       IN IF r.propaga
          THEN /\ pc' = "raised_unidad"
               /\ UNCHANGED <<evaluaciones_exitosas, evaluaciones_fallidas,
                              resultados>>
          ELSE /\ pc' = pc
               /\ evaluaciones_exitosas' = ExitosasTras(r)
               /\ resultados' = ResultadosTras(r)
               /\ evaluaciones_fallidas' = FallidasTras(r)
    /\ UNCHANGED <<estudiantes, paralelo, indice, retornos, estadisticas>>
    /\ Resto("masivo")

\* One iteration of the sequential loop (lines 156-162).
Secuencial ==
    /\ pc = "for"
    /\ indice <= Len(estudiantes)
    /\ indice' = indice + 1
    /\ LET r == EvaluarEstudiante(estudiantes[indice])
       IN IF r.propaga
          THEN /\ pc' = "raised_unidad"
               /\ UNCHANGED <<evaluaciones_exitosas, evaluaciones_fallidas,
                              resultados>>
          ELSE /\ pc' = pc
               /\ evaluaciones_exitosas' = ExitosasTras(r)
               /\ resultados' = ResultadosTras(r)
               /\ evaluaciones_fallidas' = FallidasTras(r)
    /\ UNCHANGED <<estudiantes, paralelo, futuros, retornos, estadisticas>>
    /\ Resto("masivo")

BucleTerminado ==
    \/ pc = "for" /\ indice > Len(estudiantes)
    \/ pc = "as_completed" /\ \A i \in DOMAIN futuros : futuros[i] = "recogido"

\* Lines 164-177: generar_estadisticas, the two extra keys, guardar_resumen
\* (file and spreadsheet output, which may raise) and the return.
Terminar ==
    /\ BucleTerminado
    /\ \E resumen_ok \in BOOLEAN :
          IF resumen_ok
          THEN /\ pc' = "returned"
               /\ estadisticas' =
                     [GenerarEstadisticas(evaluaciones_exitosas)
                        EXCEPT !.evaluaciones_fallidas = evaluaciones_fallidas]
          ELSE /\ pc' = "raised_guardar_resumen"
               /\ estadisticas' = estadisticas
    /\ UNCHANGED <<estudiantes, paralelo, indice, futuros, retornos,
                   evaluaciones_exitosas, evaluaciones_fallidas, resultados>>
    /\ Resto("masivo")

NextMasivo ==
    \/ Iniciar
    \/ \E i \in DOMAIN futuros : TrabajadorToma(i)
    \/ \E i \in DOMAIN futuros : TrabajadorTermina(i)
    \/ \E i \in DOMAIN futuros : Recolectar(i)
    \/ Secuencial
    \/ Terminar

(***************************************************************************)
(* AgentsManager.evaluate_class_with_agents (agents_manager.py).           *)
(*                                                                         *)
(* A student is a record                                                   *)
(*   repo_url    identifies the student (its position in the input)        *)
(*   falla       whether evaluate_with_agents raises for this student      *)
(*               (repository fetch, evaluation, agents or _save_results)   *)
(*   nota_final  the final grade of the evaluation when it does not        *)
(***************************************************************************)
CasosClase ==
    {[falla |-> TRUE, nota_final |-> 0]}
    \cup {[falla |-> FALSE, nota_final |-> n] : n \in {250, 550}}

\* evaluate_with_agents: raises, or returns the results dictionary whose
\* "evaluacion_basica" carries the repository and the final grade.
EvaluateWithAgents(student_data) ==
    [raised |-> student_data.falla,
     results |-> [evaluacion_basica |->
                     [repositorio |-> student_data.repo_url,
                      nota_final |-> student_data.nota_final]]]

\* The class_results dictionary (lines 136-148); nota_promedio is
\* suma_notas / total_estudiantes.
CompilarResultados(evals, results) ==
    LET notas == [i \in 1..Len(evals) |-> evals[i].nota_final]
    IN [total_estudiantes |-> Len(evals),
        suma_notas |-> SumSeq(notas),
        nota_maxima |-> MaxSeq(notas),
        nota_minima |-> MinSeq(notas),
        evaluaciones_individuales |-> results]

\* The students class_results lists as failed: the dictionary has no key
\* for them, the except clause only prints and continues.
FallidosReportados(cr) == {}

\* The students class_results reports with a full evaluation.
EvaluadosReportados(cr) ==
    [i \in 1..Len(cr.evaluaciones_individuales) |->
        cr.evaluaciones_individuales[i].evaluacion_basica.repositorio]

InitClase ==
    /\ cpc = "for"
    /\ students_data \in
          {[i \in 1..Len(cs) |->
               [repo_url |-> i, falla |-> cs[i].falla,
                nota_final |-> cs[i].nota_final]] :
             cs \in SeqsUpTo(CasosClase, MaxClase)}
    /\ cindice = 1
    /\ all_results = <<>>
    /\ all_evaluations = <<>>
    /\ class_results = None.class_results
    /\ Reposo("clase")

\* One iteration of the for loop (lines 102-121).
EvaluarAlumno ==
    /\ cpc = "for"
    /\ cindice <= Len(students_data)
    /\ cindice' = cindice + 1
    /\ LET r == EvaluateWithAgents(students_data[cindice])
       IN IF r.raised
          THEN UNCHANGED <<all_results, all_evaluations>>
          ELSE /\ all_results' = Append(all_results, r.results)
               /\ all_evaluations' =
                     Append(all_evaluations, r.results.evaluacion_basica)
    /\ UNCHANGED <<cpc, students_data, class_results>>
    /\ Resto("clase")

\* Lines 123-156: the class analysis, the class_results dictionary (whose
\* average divides by len(all_evaluations)), the saving and the return.
CompilarClase ==
    /\ cpc = "for"
    /\ cindice > Len(students_data)
    /\ IF Len(all_evaluations) = 0
       THEN /\ cpc' = "raised_zero_division"
            /\ class_results' = class_results
       ELSE \E guardar_ok \in BOOLEAN :
              IF guardar_ok
              THEN /\ cpc' = "returned"
                   /\ class_results' =
                         CompilarResultados(all_evaluations, all_results)
              ELSE /\ cpc' = "raised_guardar"
                   /\ class_results' = class_results
    /\ UNCHANGED <<students_data, cindice, all_results, all_evaluations>>
    /\ Resto("clase")

NextClase == EvaluarAlumno \/ CompilarClase

(***************************************************************************)
(* LLMEvaluator._parse_evaluation_response and                             *)
(* _generate_fallback_evaluation (rubrica_evaluator.py).                   *)
(*                                                                         *)
(* Text is a sequence of one-character strings.  A response is a record    *)
(* [es_texto, toks]: es_texto is FALSE when the backend handed back None   *)
(* instead of a string; toks is the text as a sequence of tokens:          *)
(*   "lb"  the character {            "rb"  the character }                *)
(*   "ctl" a control character (ord < 32, not newline, tab or return)      *)
(*   "w"   a run of letters and blanks without braces (field w)            *)
(*   "obj" the text of one well-formed JSON object, from its { to its },   *)
(*         with the members puntuacion, nota, retroalimentacion,           *)
(*         evidencias and sugerencias as field obj describes them          *)
(* A JSON value is [ty, n, s, l]: ty its Python type after json.loads      *)
(* ("absent" when the key is missing), n a number in hundredths, s the     *)
(* characters of a string, l the elements of a list (each [ty, s]).        *)
(***************************************************************************)
\* The values without content: a missing key, null, NaN, Infinity, true.
JConst ==
    [absent |-> [ty |-> "absent", n |-> 0, s |-> <<>>, l |-> <<>>],
     null |-> [ty |-> "null", n |-> 0, s |-> <<>>, l |-> <<>>],
     nan |-> [ty |-> "nan", n |-> 0, s |-> <<>>, l |-> <<>>],
     inf |-> [ty |-> "inf", n |-> 0, s |-> <<>>, l |-> <<>>],
     true |-> [ty |-> "bool", n |-> 100, s |-> <<>>, l |-> <<>>]]
JInt(k) == [ty |-> "int", n |-> 100 * k, s |-> <<>>, l |-> <<>>]
JFloat(h) == [ty |-> "float", n |-> h, s |-> <<>>, l |-> <<>>]
JStr(chars) == [ty |-> "str", n |-> 0, s |-> chars, l |-> <<>>]
JList(elems) == [ty |-> "list", n |-> 0, s |-> <<>>, l |-> elems]
EStr(chars) == [ty |-> "str", s |-> chars]

EmptyObj ==
    [puntuacion |-> JConst.absent, nota |-> JConst.absent, retroalimentacion |-> JConst.absent,
     evidencias |-> JConst.absent, sugerencias |-> JConst.absent]

\* The one-character tokens: {, } and a control character.
Marca ==
    [lb |-> [t |-> "lb", w |-> <<>>, obj |-> EmptyObj],
     rb |-> [t |-> "rb", w |-> <<>>, obj |-> EmptyObj],
     ctl |-> [t |-> "ctl", w |-> <<>>, obj |-> EmptyObj]]
W(chars) == [t |-> "w", w |-> chars, obj |-> EmptyObj]
OBJ(o) == [t |-> "obj", w |-> <<>>, obj |-> o]

\* The sample texts.
Palabra ==
    [excelente |-> <<"e", "x", "c", "e", "l", "e", "n", "t", "e">>,
     Excelente |-> <<"E", "x", "c", "e", "l", "e", "n", "t", "e">>,
     muy_bien |-> <<"m", "u", "y", " ", "b", "i", "e", "n">>,
     bien |-> <<"b", "i", "e", "n">>,
     incorrecto |-> <<"i", "n", "c", "o", "r", "r", "e", "c", "t", "o">>,
     error |-> <<"e", "r", "r", "o", "r">>,
     hola |-> <<"h", "o", "l", "a">>,
     readme |-> <<"R", "E", "A", "D", "M", "E", ".", "m", "d">>]

\* The keyword lists of lines 333, 335 and 337.
Claves ==
    [alto |->
        << <<"e", "x", "c", "e", "l", "e", "n", "t", "e">>,
           <<"m", "u", "y", " ", "b", "i", "e", "n">>,
           <<"p", "e", "r", "f", "e", "c", "t", "o">>,
           <<"c", "o", "m", "p", "l", "e", "t", "o">> >>,
     medio |->
        << <<"b", "u", "e", "n", "o">>,
           <<"b", "i", "e", "n">>,
           <<"a", "d", "e", "c", "u", "a", "d", "o">>,
           <<"c", "o", "r", "r", "e", "c", "t", "o">> >>,
     bajo |->
        << <<"m", "a", "l", "o">>,
           <<"i", "n", "c", "o", "r", "r", "e", "c", "t", "o">>,
           <<"f", "a", "l", "t", "a", "n", "t", "e">>,
           <<"e", "r", "r", "o", "r">> >>]

\* str.lower(), on the letters the sample texts use in upper case.
Lower(text) ==
    LET LowerChar(c) ==
            CASE c = "E" -> "e" [] c = "R" -> "r" [] c = "A" -> "a"
              [] c = "D" -> "d" [] c = "M" -> "m" [] OTHER -> c
    IN [i \in 1..Len(text) |-> LowerChar(text[i])]

\* "word in text": word occurs as a substring.
Contains(text, word) ==
    \E i \in 1..(Len(text) - Len(word) + 1) :
        SubSeq(text, i, i + Len(word) - 1) = word

\* The blank-separated words of a text.
RECURSIVE SplitWords(_, _)
SplitWords(text, cur) ==
    IF text = <<>> THEN (IF cur = <<>> THEN {} ELSE {cur})
    ELSE IF Head(text) = " "
    THEN (IF cur = <<>> THEN {} ELSE {cur}) \cup SplitWords(Tail(text), <<>>)
    ELSE SplitWords(Tail(text), Append(cur, Head(text)))

\* any(word in response_lower for word in [...])
AnyIn(words, text) == \E k \in 1..Len(words) : Contains(text, words[k])

RECURSIVE Concat(_)
Concat(ss) == IF ss = <<>> THEN <<>> ELSE Head(ss) \o Concat(Tail(ss))

\* The characters of a JSON value that a keyword can match: the text of
\* strings; numbers, null and booleans hold no keyword and are one "#".
ValueChars(v) ==
    IF v.ty = "str" THEN v.s
    ELSE IF v.ty = "list"
    THEN Concat([i \in 1..Len(v.l) |-> v.l[i].s \o <<" ">>])
    ELSE <<"#">>

MemberChars(key, v) ==
    IF v.ty = "absent" THEN <<>> ELSE key \o <<" ">> \o ValueChars(v) \o <<" ">>

ObjChars(o) ==
    <<"{">>
    \o MemberChars(<<"p", "u", "n", "t", "u", "a", "c", "i", "o", "n">>, o.puntuacion)
    \o MemberChars(<<"n", "o", "t", "a">>, o.nota)
    \o MemberChars(<<"r", "e", "t", "r", "o", "a", "l", "i", "m", "e", "n", "t", "a", "c", "i", "o", "n">>, o.retroalimentacion)
    \o MemberChars(<<"e", "v", "i", "d", "e", "n", "c", "i", "a", "s">>, o.evidencias)
    \o MemberChars(<<"s", "u", "g", "e", "r", "e", "n", "c", "i", "a", "s">>, o.sugerencias)
    \o <<"}">>

TokChars(tok) ==
    CASE tok.t = "lb" -> <<"{">>
      [] tok.t = "rb" -> <<"}">>
      [] tok.t = "ctl" -> <<"^">>
      [] tok.t = "w" -> tok.w
      [] tok.t = "obj" -> ObjChars(tok.obj)

\* The raw text of a response, tokens separated by a blank.
TextOf(toks) == Concat([i \in 1..Len(toks) |-> TokChars(toks[i]) \o <<" ">>])

\* clean_response.find('{'): 0-based index of the first token that starts
\* with {, or -1.
FindLB(toks) ==
    LET I == {i \in 1..Len(toks) : toks[i].t \in {"lb", "obj"}}
    IN IF I = {} THEN -1 ELSE (CHOOSE i \in I : \A j \in I : i <= j) - 1

\* clean_response.rfind('}') + 1: one past the last token that ends with },
\* or 0.
RFindRBPlus1(toks) ==
    LET I == {i \in 1..Len(toks) : toks[i].t \in {"rb", "obj"}}
    IN IF I = {} THEN 0 ELSE CHOOSE i \in I : \A j \in I : i >= j

\* clean_response[start:end]
Slice(toks, start, end) ==
    IF end <= start THEN <<>> ELSE SubSeq(toks, start + 1, end)

\* Line 286: drop the control characters.
RECURSIVE DropControl(_)
DropControl(toks) ==
    IF toks = <<>> THEN <<>>
    ELSE IF Head(toks).t = "ctl" THEN DropControl(Tail(toks))
    ELSE <<Head(toks)>> \o DropControl(Tail(toks))

\* json.loads: the text decodes when it is exactly one object.
JsonLoads(json_str) ==
    IF Len(json_str) = 1 /\ json_str[1].t = "obj"
    THEN [ok |-> TRUE, data |-> json_str[1].obj]
    ELSE IF json_str = <<Marca.lb, Marca.rb>>
    THEN [ok |-> TRUE, data |-> EmptyObj]
    ELSE [ok |-> FALSE, data |-> EmptyObj]

\* isinstance(x, (int, float)): bool is a subclass of int; NaN and Infinity
\* are floats.
IsIntOrFloat(v) == v.ty \in {"int", "float", "nan", "inf", "bool"}

\* Lines 292-301.
Validar(data) ==
    /\ IsIntOrFloat(data.puntuacion)
    /\ IsIntOrFloat(data.nota)
    /\ data.retroalimentacion.ty = "str"
    /\ data.evidencias.ty = "list"
    /\ data.sugerencias.ty = "list"

\* int(x) raises ValueError on NaN and OverflowError on Infinity.
IntRaises(v) == v.ty \in {"nan", "inf"}

\* int(x) truncates toward zero.
IntOf(v) == IF v.n >= 0 THEN v.n \div 100 ELSE -((-v.n) \div 100)

\* Line 304 without the clamp.
AsegurarPuntuacionSinClamp(v) == IntOf(v)

\* Line 304: max(0, min(100, int(data['puntuacion'])))
AsegurarPuntuacion(v) == Max2(0, Min2(100, IntOf(v)))

\* Line 305: max(1.0, min(7.0, float(data['nota']))); min(7.0, x) is 7.0
\* for NaN and for Infinity.
AsegurarNota(v) ==
    IF v.ty \in {"nan", "inf"} THEN 700 ELSE Max2(100, Min2(700, v.n))

\* The stepped table applied to the fallback score.
NotaFallbackEscalonada(puntuacion) == PorcentajeANotaChilena(100 * puntuacion)

\* The linear formula with the division by 100 forgotten.
NotaFallbackSinDividir(puntuacion) == 100 + 600 * puntuacion

\* Line 340: nota = 1.0 + (puntuacion / 100) * 6.0
NotaFallback(puntuacion) == 100 + 6 * puntuacion

\* The keyword scan comparing whole blank-separated words instead of
\* searching substrings.
PuntuacionFallbackPalabras(response_lower) ==
    LET palabras == SplitWords(response_lower, <<>>)
        Alguna(words) == \E k \in 1..Len(words) : words[k] \in palabras
    IN IF Alguna(Claves.alto) THEN 85
       ELSE IF Alguna(Claves.medio) THEN 70
       ELSE IF Alguna(Claves.bajo) THEN 30
       ELSE 60

\* Lines 329-338.
PuntuacionFallback(response_lower) ==
    IF AnyIn(Claves.alto, response_lower) THEN 85
    ELSE IF AnyIn(Claves.medio, response_lower) THEN 70
    ELSE IF AnyIn(Claves.bajo, response_lower) THEN 30
    ELSE 60

\* The fixed suggestion lists of lines 353-357 and of line 367.
PlantillaSugerencias ==
    [fallback |-> <<EStr(<<"#", "1">>), EStr(<<"#", "2">>), EStr(<<"#", "3">>)>>,
     minima |-> <<EStr(<<"#", "4">>), EStr(<<"#", "5">>)>>]

\* _generate_fallback_evaluation.  Field ruta only records which return
\* statement produced the result; the ResultadoCriterio has no such field.
GenerateFallbackEvaluation(resp) ==
    IF ~resp.es_texto
    THEN \* re.findall on a non-string raises TypeError: lines 360-369
         [ruta |-> "minimo", puntuacion |-> 50, nota |-> 400,
          retroalimentacion |-> [plantilla |-> "minima", s |-> <<>>],
          evidencias |-> <<>>, sugerencias |-> PlantillaSugerencias.minima]
    ELSE LET puntuacion == PuntuacionFallback(Lower(TextOf(resp.toks)))
         IN [ruta |-> "fallback", puntuacion |-> puntuacion,
             nota |-> NotaFallback(puntuacion),
             retroalimentacion |-> [plantilla |-> "fallback", s |-> <<>>],
             evidencias |-> <<>>, sugerencias |-> PlantillaSugerencias.fallback]

\* _parse_evaluation_response: every exception of the try block (strip on a
\* non-string, ValueError, JSONDecodeError, int() on NaN) lands in the
\* fallback.
ParseEvaluationResponse(resp) ==
    IF ~resp.es_texto THEN GenerateFallbackEvaluation(resp)
    ELSE LET start == FindLB(resp.toks)
             end == RFindRBPlus1(resp.toks)
         IN IF start = -1 \/ end = 0 THEN GenerateFallbackEvaluation(resp)
            ELSE LET d == JsonLoads(DropControl(Slice(resp.toks, start, end)))
                 IN IF ~d.ok THEN GenerateFallbackEvaluation(resp)
                    ELSE IF ~Validar(d.data) THEN GenerateFallbackEvaluation(resp)
                    ELSE IF IntRaises(d.data.puntuacion)
                    THEN GenerateFallbackEvaluation(resp)
                    ELSE [ruta |-> "primario",
                          puntuacion |-> AsegurarPuntuacion(d.data.puntuacion),
                          nota |-> AsegurarNota(d.data.nota),
                          retroalimentacion |->
                              [plantilla |-> "dato",
                               s |-> d.data.retroalimentacion.s],
                          evidencias |-> d.data.evidencias.l,
                          sugerencias |-> d.data.sugerencias.l]

\* ---- the responses the model feeds to the parser ----
\* The tokens of the plain texts and the values of each member of the objects.
Muestra ==
    [tokens |->
        {Marca.lb, Marca.rb, Marca.ctl, W(Palabra.excelente), W(Palabra.Excelente), W(Palabra.muy_bien), W(Palabra.bien),
         W(Palabra.incorrecto), W(Palabra.error), W(Palabra.hola)},
     puntuacion |->
        {JConst.absent, JConst.null, JInt(85), JInt(150), JInt(-5), JFloat(8570), JFloat(-50),
         JConst.nan, JConst.inf, JConst.true, JStr(<<"8", "5">>)},
     nota |-> {JConst.absent, JFloat(610), JFloat(950), JInt(0), JConst.nan, JStr(<<"6">>)},
     retroalimentacion |-> {JConst.absent, JStr(Palabra.bien), JStr(Palabra.hola), JInt(3)},
     evidencias |->
        {JConst.absent, JList(<<>>), JList(<<EStr(Palabra.readme)>>), JList(<<[ty |-> "int", s |-> <<"7">>]>>),
         JStr(Palabra.readme)},
     sugerencias |-> {JConst.absent, JList(<<EStr(Palabra.error)>>), JList(<<[ty |-> "int", s |-> <<"7">>]>>)}]

Respuestas ==
    LET ObjetosMuestra ==
            {[puntuacion |-> a, nota |-> b, retroalimentacion |-> c,
              evidencias |-> d, sugerencias |-> e] :
                a \in Muestra.puntuacion, b \in Muestra.nota,
                c \in Muestra.retroalimentacion, d \in Muestra.evidencias,
                e \in Muestra.sugerencias}
    IN {[es_texto |-> FALSE, toks |-> <<>>]}
       \cup {[es_texto |-> TRUE, toks |-> ts] :
                ts \in SeqsUpTo(Muestra.tokens, MaxTokens)}
       \cup {[es_texto |-> TRUE, toks |-> pre \o <<OBJ(o)>> \o post] :
                pre \in {<<>>, <<W(Palabra.hola)>>, <<Marca.lb>>},
                post \in {<<>>, <<W(Palabra.error)>>, <<Marca.rb>>},
                o \in ObjetosMuestra}

InitParse ==
    /\ ppc = "entrada"
    /\ response \in Respuestas
    /\ resultado = None.resultado
    /\ Reposo("parse")

Parsear ==
    /\ ppc = "entrada"
    /\ ppc' = "salida"
    /\ resultado' = ParseEvaluationResponse(response)
    /\ UNCHANGED response
    /\ Resto("parse")

NextParse == Parsear

(***************************************************************************)
(* The two converters applied to one percentage.                           *)
(***************************************************************************)
InitNota ==
    /\ npc = "entrada"
    /\ porcentaje \in 0..10000
    /\ nota_kedro = 0
    /\ nota_eval = 0
    /\ Reposo("nota")

Convertir ==
    /\ npc = "entrada"
    /\ npc' = "salida"
    /\ nota_kedro' = PorcentajeANotaChilena(porcentaje)
    /\ nota_eval' = CalcularNotaEscalaChilena(porcentaje)
    /\ UNCHANGED porcentaje
    /\ Resto("nota")

NextNota == Convertir

(***************************************************************************)
(* One call of KedroEvaluator.evaluar_proyecto, with the analysis of        *)
(* KedroProjectAnalyzer (kedro_evaluator.py).                              *)
(*                                                                         *)
(* A repository is a record                                                *)
(*   acceso       "ok", "github_exc" (get_repo raises GithubException) or  *)
(*                "otra_exc" (get_repo raises any other exception)         *)
(*   directorios  which of conf, data, src, notebooks exist                *)
(*   archivos     which of the four configuration files exist              *)
(*   datasets     number of valid entries of conf/base/catalog.yml         *)
(*   pipelines    number of pipeline directories under src                 *)
(*   notebooks    number of CRISP-DM notebooks under notebooks             *)
(*   readme, tests  README.md exists; tests or src/tests exists            *)
(*   otros        how many of .gitignore, .env.example and                 *)
(*                conf/base/logging.yml exist                              *)
(***************************************************************************)
directorios_requeridos == {"conf", "data", "src", "notebooks"}

archivos_config ==
    {"conf/base/catalog.yml", "conf/base/parameters.yml", "pyproject.toml",
     "requirements.txt"}

\* analizar_estructura_kedro: lists are kept as their lengths where the
\* evaluator only reads the length.
AnalizarEstructuraKedro(r) ==
    LET dirs == r.directorios \cap directorios_requeridos
        archs == r.archivos \cap archivos_config
    IN [tiene_estructura_kedro |->
            Cardinality(dirs) >= 3 /\ Cardinality(archs) >= 2,
        directorios_principales |-> Cardinality(dirs),
        archivos_configuracion |-> archs,
        pipelines_encontrados |-> IF "src" \in dirs THEN r.pipelines ELSE 0,
        datasets_configurados |->
            IF "conf/base/catalog.yml" \in archs THEN r.datasets ELSE 0,
        notebooks_crisp_dm |-> IF "notebooks" \in dirs THEN r.notebooks ELSE 0,
        errores |-> (4 - Cardinality(dirs)) + (4 - Cardinality(archs))
                    + (IF "src" \in dirs THEN 0 ELSE 1)
                    + (IF "notebooks" \in dirs THEN 0 ELSE 1)]

\* verificar_reproducibilidad: the seven checks.
VerificarReproducibilidad(r) ==
    [tiene_requirements |-> "requirements.txt" \in r.archivos,
     tiene_readme |-> r.readme,
     tiene_tests |-> r.tests,
     usa_parametros |-> "conf/base/parameters.yml" \in r.archivos,
     otros |-> r.otros]

\* sum(1 for v in reproducibilidad.values() if v)
ChecksPasados(rep) ==
    (IF rep.tiene_requirements THEN 1 ELSE 0) + (IF rep.tiene_readme THEN 1 ELSE 0)
    + (IF rep.tiene_tests THEN 1 ELSE 0) + (IF rep.usa_parametros THEN 1 ELSE 0)
    + rep.otros

\* create_kedro_ml_rubrica()["criterios"]: the ten names in definition
\* order, each with ponderacion 0.10 (in hundredths).
RubricaKedro ==
    << [nombre |-> "Estructura y Configuracion del Proyecto Kedro", ponderacion |-> 10],
       [nombre |-> "Implementacion del Catalogo de Datos", ponderacion |-> 10],
       [nombre |-> "Desarrollo de Nodos y Funciones", ponderacion |-> 10],
       [nombre |-> "Construccion de Pipelines", ponderacion |-> 10],
       [nombre |-> "Analisis Exploratorio de Datos - EDA", ponderacion |-> 10],
       [nombre |-> "Limpieza y Tratamiento de Datos", ponderacion |-> 10],
       [nombre |-> "Transformacion y Feature Engineering", ponderacion |-> 10],
       [nombre |-> "Identificacion de Targets para ML", ponderacion |-> 10],
       [nombre |-> "Documentacion y Notebooks", ponderacion |-> 10],
       [nombre |-> "Reproducibilidad y Mejores Practicas", ponderacion |-> 10] >>

\* The if/elif chain of _evaluar_criterio on the criterion's name: which
\* substring test the name passes first.
Rama(nombre) ==
    CASE nombre = "Estructura y Configuracion del Proyecto Kedro" -> "estructura"
      [] nombre = "Implementacion del Catalogo de Datos" -> "catalogo"
      [] nombre = "Construccion de Pipelines" -> "pipelines"
      [] nombre = "Documentacion y Notebooks" -> "documentacion"
      [] nombre = "Reproducibilidad y Mejores Practicas" -> "reproducibilidad"
      [] OTHER -> "generica"

\* The score _evaluar_criterio gives (0..100).
PuntuacionCriterio(nombre, est, rep) ==
    LET rama == Rama(nombre)
    IN CASE rama = "estructura" ->
              IF est.tiene_estructura_kedro
              THEN (IF est.errores = 0 THEN 100 ELSE 80)
              ELSE (IF est.directorios_principales >= 2 THEN 40 ELSE 20)
         [] rama = "catalogo" ->
              IF est.datasets_configurados >= 3
              THEN (IF est.datasets_configurados > 3 THEN 100 ELSE 80)
              ELSE IF est.datasets_configurados = 2 THEN 60
              ELSE IF est.datasets_configurados = 1 THEN 40
              ELSE 20
         [] rama = "pipelines" ->
              IF est.pipelines_encontrados >= 3 THEN 100
              ELSE IF est.pipelines_encontrados = 2 THEN 80
              ELSE IF est.pipelines_encontrados = 1 THEN 60
              ELSE 20
         [] rama = "documentacion" ->
              IF rep.tiene_readme
              THEN (IF est.notebooks_crisp_dm >= 3 THEN 100
                    ELSE IF est.notebooks_crisp_dm >= 2 THEN 80
                    ELSE 60)
              ELSE 20
         [] rama = "reproducibilidad" -> (100 * ChecksPasados(rep)) \div 7
         [] OTHER -> IF est.tiene_estructura_kedro THEN 60 ELSE 40

\* puntuacion_ponderada = puntuacion * criterio["ponderacion"], in
\* hundredths of a percentage point.
PuntuacionPonderada(puntuacion, ponderacion) == puntuacion * ponderacion

\* The dictionary _evaluar_criterio returns.
EvaluarCriterio(criterio, est, rep) ==
    LET puntuacion == PuntuacionCriterio(criterio.nombre, est, rep)
    IN [nombre |-> criterio.nombre,
        ponderacion |-> criterio.ponderacion,
        puntuacion |-> puntuacion,
        puntuacion_ponderada |-> PuntuacionPonderada(puntuacion, criterio.ponderacion),
        nota_criterio |-> PorcentajeANotaChilena(100 * puntuacion)]

\* _calcular_bonificaciones: the named deltas, in hundredths of a point.
\* archivos_configuracion only ever holds names of archivos_config, none of
\* which contains "kedro-viz".
CalcularBonificaciones(est, rep) ==
    [kedro_viz |-> IF "kedro-viz" \in est.archivos_configuracion THEN 300 ELSE 0,
     tests_unitarios |-> IF rep.tiene_tests THEN 500 ELSE 0]

\* _calcular_penalizaciones
CalcularPenalizaciones(est) ==
    [datasets_faltantes |-> Max2(0, 3 - est.datasets_configurados) * 1000,
     sin_estructura_kedro |-> IF est.tiene_estructura_kedro THEN 0 ELSE 2000]

SinAjustes ==
    [bonificaciones |-> [kedro_viz |-> 0, tests_unitarios |-> 0],
     penalizaciones |-> [datasets_faltantes |-> 0, sin_estructura_kedro |-> 0]]

\* The percentage without the clamp.
PorcentajeFinalSinClamp(puntuacion_total) == puntuacion_total

\* porcentaje_final = max(0, min(100, puntuacion_total))
PorcentajeFinal(puntuacion_total) == Max2(0, Min2(10000, puntuacion_total))

\* The status with the threshold compared strictly.
EstadoDeNotaEstricto(nota_final) ==
    IF nota_final > 400 THEN "APROBADO" ELSE "REPROBADO"

\* estado = "APROBADO" if nota_final >= 4.0 else "REPROBADO"
EstadoDeNota(nota_final) ==
    IF nota_final >= 400 THEN "APROBADO" ELSE "REPROBADO"

\* _crear_evaluacion_error
CrearEvaluacionErrorKedro ==
    [estado |-> "ERROR", nota_final |-> 100, porcentaje_total |-> 0,
     puntuacion_total |-> 0, criterios_evaluados |-> <<>>,
     bonificaciones_aplicadas |-> SinAjustes.bonificaciones,
     penalizaciones_aplicadas |-> SinAjustes.penalizaciones]

\* The criteria loop of a rubric that stops one criterion short.
CriteriosEvaluadosSinUltimo(rub, est, rep) ==
    [i \in 1..(Len(rub) - 1) |-> EvaluarCriterio(rub[i], est, rep)]

\* Lines 363-372: one result per criterion, in the rubric's order.
CriteriosEvaluados(rub, est, rep) ==
    [i \in 1..Len(rub) |-> EvaluarCriterio(rub[i], est, rep)]

\* evaluar_proyecto after get_repo succeeded (lines 358-416).  Field
\* puntuacion_total keeps the local variable of that name as it stands
\* before the clamp; the EvaluacionKedro has no such field.
EvaluarProyectoRepo(r, aplicar) ==
    LET est == AnalizarEstructuraKedro(r)
        rep == VerificarReproducibilidad(r)
        criterios == CriteriosEvaluados(RubricaKedro, est, rep)
        suma == SumSeq([i \in 1..Len(criterios) |-> criterios[i].puntuacion_ponderada])
        bon == IF aplicar THEN CalcularBonificaciones(est, rep) ELSE SinAjustes.bonificaciones
        pen == IF aplicar THEN CalcularPenalizaciones(est) ELSE SinAjustes.penalizaciones
        puntuacion_total ==
            suma + (bon.kedro_viz + bon.tests_unitarios)
                 - (pen.datasets_faltantes + pen.sin_estructura_kedro)
        porcentaje_final == PorcentajeFinal(puntuacion_total)
        nota_final == PorcentajeANotaChilena(porcentaje_final)
    IN [estado |-> EstadoDeNota(nota_final),
        nota_final |-> nota_final,
        porcentaje_total |-> porcentaje_final,
        puntuacion_total |-> puntuacion_total,
        criterios_evaluados |-> criterios,
        bonificaciones_aplicadas |-> bon,
        penalizaciones_aplicadas |-> pen]

\* ---- the repositories the model feeds to evaluar_proyecto ----
Repositorios ==
    LET DirectoriosMuestra ==
            {directorios_requeridos, {"conf", "data", "src"}, {"conf", "data"}, {}}
        ArchivosMuestra ==
            {archivos_config,
             {"conf/base/catalog.yml", "conf/base/parameters.yml"},
             {"requirements.txt"}, {}}
    IN {[acceso |-> "ok", directorios |-> d, archivos |-> a, datasets |-> n,
         pipelines |-> p, notebooks |-> k, readme |-> rd, tests |-> t,
         otros |-> o] :
           d \in DirectoriosMuestra, a \in ArchivosMuestra, n \in 0..4,
           p \in 0..3, k \in {0, 2, 3}, rd \in BOOLEAN, t \in BOOLEAN,
           o \in {0, 3}}

\* A repository whose hosting API answers nothing: get_repo raised.
RepoInaccesible(acc) ==
    [acceso |-> acc, directorios |-> {}, archivos |-> {}, datasets |-> 0,
     pipelines |-> 0, notebooks |-> 0, readme |-> FALSE, tests |-> FALSE,
     otros |-> 0]

\* A repository is what the hosting API can answer: no catalog entries
\* without a catalog, no pipelines without src, no notebooks without the
\* notebooks directory.
RepoCoherente(r) ==
    /\ "conf/base/catalog.yml" \notin r.archivos => r.datasets = 0
    /\ "src" \notin r.directorios => r.pipelines = 0
    /\ "notebooks" \notin r.directorios => r.notebooks = 0

InitProyecto ==
    /\ epc = "entrada"
    /\ repo \in {r \in Repositorios : RepoCoherente(r)}
                  \cup {RepoInaccesible("github_exc"), RepoInaccesible("otra_exc")}
    /\ aplicar_bonificaciones \in BOOLEAN
    /\ evaluacion_kedro = None.evaluacion_kedro
    /\ Reposo("proyecto")

\* The whole call: get_repo inside try / except GithubException, then the
\* analysis, the criteria loop, the deltas, the clamp and the record.
LlamarEvaluarProyecto ==
    /\ epc = "entrada"
    /\ IF repo.acceso = "otra_exc"
       THEN /\ epc' = "raised"
            /\ evaluacion_kedro' = evaluacion_kedro
       ELSE IF repo.acceso = "github_exc"
       THEN /\ epc' = "returned"
            /\ evaluacion_kedro' = CrearEvaluacionErrorKedro
       ELSE /\ epc' = "returned"
            /\ evaluacion_kedro' = EvaluarProyectoRepo(repo, aplicar_bonificaciones)
    /\ UNCHANGED <<repo, aplicar_bonificaciones>>
    /\ Resto("proyecto")

NextProyecto == LlamarEvaluarProyecto

(***************************************************************************)
(* RubricaEvaluator (rubrica_evaluator.py): load_rubrica_from_dict,        *)
(* evaluate_repository, LLMEvaluator.evaluate_criterion and the advanced   *)
(* path through MetaPromptingEvaluator (advanced_evaluator.py).            *)
(*                                                                         *)
(* A weight (ponderacion) is in hundredths: 0.10 is 10.  A criterion       *)
(* result is a record [criterio, ruta, puntuacion, nota] whose puntuacion  *)
(* and nota are JSON-like values [ty, n, s, l] with n in hundredths, since *)
(* the advanced path stores whatever the backend sent.  Field ruta only    *)
(* records which return statement produced the result.                     *)
(***************************************************************************)
\* load_rubrica_from_dict: one CriterioRubrica per entry, in order, with
\* the entry's values as they are.
LoadRubricaFromDict(criterios) ==
    [i \in 1..Len(criterios) |->
        [nombre |-> criterios[i].nombre, ponderacion |-> criterios[i].ponderacion]]

\* The except clause of evaluate_criterion (lines 194-203).
ResultadoErrorBackend(criterio_nombre) ==
    [criterio |-> criterio_nombre, ruta |-> "error_backend",
     puntuacion |-> JInt(0), nota |-> JFloat(100)]

\* evaluate_criterion: the backend call inside try; on success the parser,
\* on any exception the error result.
EvaluateCriterion(criterio, llamada) ==
    IF llamada.falla THEN ResultadoErrorBackend(criterio.nombre)
    ELSE LET r == ParseEvaluationResponse(llamada.resp)
         IN [criterio |-> criterio.nombre, ruta |-> r.ruta,
             puntuacion |-> JInt(r.puntuacion), nota |-> JFloat(r.nota)]

\* MetaPromptingEvaluator._generate_fallback_response: the JSON text
\* _call_llm returns when the call raised.
FallbackResponse ==
    [es_texto |-> TRUE,
     toks |-> <<OBJ([puntuacion |-> JInt(60), nota |-> JFloat(460),
                     retroalimentacion |-> JStr(Palabra.hola),
                     evidencias |-> JList(<<>>),
                     sugerencias |-> JList(<<EStr(Palabra.hola)>>)])>>]

\* MetaPromptingEvaluator._extract_json: {} on any failure.
ExtractJson(resp) ==
    IF ~resp.es_texto THEN EmptyObj
    ELSE LET start == FindLB(resp.toks)
             end == RFindRBPlus1(resp.toks)
         IN IF start = -1 THEN EmptyObj
            ELSE LET d == JsonLoads(Slice(resp.toks, start, end))
                 IN IF d.ok THEN d.data ELSE EmptyObj

\* eval_data.get(key, default)
GetOr(v, default) == IF v.ty = "absent" THEN default ELSE v

\* evaluate_criterion_advanced and the copy into a ResultadoCriterio
\* (rubrica_evaluator.py lines 483-496): _call_llm never raises, it hands
\* back the fallback response; _parse_advanced_evaluation copies puntuacion
\* and nota out of the decoded object unchecked.
EvaluateCriterionAdvanced(criterio, llamada) ==
    LET evaluation == IF llamada.falla THEN FallbackResponse ELSE llamada.resp
        eval_data == ExtractJson(evaluation)
    IN [criterio |-> criterio.nombre, ruta |-> "avanzado",
        puntuacion |-> GetOr(eval_data.puntuacion, JInt(60)),
        nota |-> GetOr(eval_data.nota, JFloat(460))]

\* round(x, 2) of a non-negative x given in ten-thousandths, to hundredths
\* (ties to even).
Round2(x) ==
    LET q == x \div 100
        r == x % 100
    IN IF r < 50 THEN q
       ELSE IF r > 50 THEN q + 1
       ELSE IF q % 2 = 0 THEN q ELSE q + 1

\* nota * ponderacion raises TypeError for None, str and list; the
\* comparisons of _generate_summary raise for a non-numeric puntuacion.
EsNumeroPython(v) == v.ty \in {"int", "float", "bool"}

\* next((c for c in rubrica if c.nombre == resultado.criterio), None):
\* the first criterion of that name.
CriterioDe(rub, nombre) ==
    LET I == {i \in 1..Len(rub) : rub[i].nombre = nombre}
    IN rub[CHOOSE i \in I : \A j \in I : i <= j]

\* Lines 419-424: nota_total += resultado.nota * criterio.ponderacion, in
\* ten-thousandths.
NotaTotal(resultados_, rub) ==
    SumSeq([i \in 1..Len(resultados_) |->
               resultados_[i].nota.n * CriterioDe(rub, resultados_[i].criterio).ponderacion])

\* ---- the rubric definitions and backend behaviours of the model ----
\* Short definitions with weights 0.5, 0.1, 1.5 and -0.2, and the built-in
\* definition: the ten criteria of create_kedro_ml_rubrica.
DefinicionesMuestra ==
    {[i \in 1..Len(ps) |-> [nombre |-> i, ponderacion |-> ps[i]]] :
        ps \in SeqsUpTo({50, 10, 150, -20}, MaxCriterios)}
    \cup {RubricaKedro}

ObjetoRespuesta(a, b) ==
    [es_texto |-> TRUE,
     toks |-> <<OBJ([puntuacion |-> a, nota |-> b, retroalimentacion |-> JStr(Palabra.bien),
                     evidencias |-> JList(<<>>),
                     sugerencias |-> JList(<<EStr(Palabra.hola)>>)])>>]

Llamada(f, r) == [falla |-> f, resp |-> r]

\* What the backend does at one call: it fails (network or timeout error,
\* non-success status, unsupported provider) or it answers a text.
\* The built-in rubric is driven with the two short behaviours only.
LlamadasPara(rub) ==
    LET LlamadasCortas ==
            {Llamada(TRUE, None.response),
             Llamada(FALSE, ObjetoRespuesta(JInt(80), JFloat(580)))}
        LlamadasMuestra ==
            LlamadasCortas
            \cup {Llamada(FALSE, ObjetoRespuesta(JInt(150), JFloat(950))),
                  Llamada(FALSE,
                          ObjetoRespuesta(JStr(<<"8", "5">>), JConst.null)),
                  Llamada(FALSE,
                          [es_texto |-> TRUE, toks |-> <<W(Palabra.hola)>>])}
    IN IF Len(rub) > MaxCriterios + 2 THEN LlamadasCortas ELSE LlamadasMuestra

InitRubrica ==
    /\ rpc = "load"
    /\ rubrica_dict \in DefinicionesMuestra
    /\ use_advanced \in BOOLEAN
    /\ rubrica = <<>>
    /\ resultados_criterios = <<>>
    /\ llamadas = <<>>
    /\ evaluacion_completa = None.evaluacion_completa
    /\ Reposo("rubrica")

\* load_rubrica_from_dict(rubrica_dict): it has no raise statement.
Cargar ==
    /\ rpc = "load"
    /\ rubrica' = LoadRubricaFromDict(rubrica_dict)
    /\ rpc' = "estructura"
    /\ UNCHANGED <<rubrica_dict, use_advanced, resultados_criterios, llamadas,
                   evaluacion_completa>>
    /\ Resto("rubrica")

\* evaluate_repository, line 407: get_repository_structure is not guarded.
ObtenerEstructura ==
    /\ rpc = "estructura"
    /\ \E estructura_ok \in BOOLEAN :
          rpc' = IF estructura_ok THEN "criterios" ELSE "raised_estructura"
    /\ UNCHANGED <<rubrica_dict, use_advanced, rubrica, resultados_criterios,
                   llamadas, evaluacion_completa>>
    /\ Resto("rubrica")

\* One iteration of the loop of _evaluate_with_standard_system or of
\* _evaluate_with_advanced_system: the criterion at the next position.
EvaluarSiguienteCriterio ==
    /\ rpc = "criterios"
    /\ Len(resultados_criterios) < Len(rubrica)
    /\ \E llamada \in LlamadasPara(rubrica) :
          LET criterio == rubrica[Len(resultados_criterios) + 1]
          IN /\ resultados_criterios' =
                    Append(resultados_criterios,
                           IF use_advanced
                           THEN EvaluateCriterionAdvanced(
                                    CriterioDe(rubrica, criterio.nombre), llamada)
                           ELSE EvaluateCriterion(criterio, llamada))
             /\ llamadas' = Append(llamadas, llamada)
    /\ UNCHANGED <<rpc, rubrica_dict, use_advanced, rubrica, evaluacion_completa>>
    /\ Resto("rubrica")

\* Lines 418-441: the weighted sum, the summary and the record.
Completar ==
    /\ rpc = "criterios"
    /\ Len(resultados_criterios) = Len(rubrica)
    /\ IF \A i \in 1..Len(resultados_criterios) :
             /\ EsNumeroPython(resultados_criterios[i].nota)
             /\ EsNumeroPython(resultados_criterios[i].puntuacion)
       THEN /\ rpc' = "returned"
            /\ evaluacion_completa' =
                  [criterios |-> resultados_criterios,
                   nota_final |-> Round2(NotaTotal(resultados_criterios, rubrica))]
       ELSE /\ rpc' = "raised_type_error"
            /\ evaluacion_completa' = evaluacion_completa
    /\ UNCHANGED <<rubrica_dict, use_advanced, rubrica, resultados_criterios,
                   llamadas>>
    /\ Resto("rubrica")

NextRubrica == Cargar \/ ObtenerEstructura \/ EvaluarSiguienteCriterio \/ Completar

(***************************************************************************)
(* AnalysisAgent (agents/analysis_agent.py).                               *)
(*                                                                         *)
(* The text the backend answers is a sequence of tokens [t, items]:        *)
(*   "lbk"  the character [            "rbk"  the character ]              *)
(*   "w"    a run of text without brackets                                 *)
(*   "arr"  the text of one well-formed JSON array of objects; items holds *)
(*          the "gravedad" member of each object ("absent" when missing)   *)
(*   "nums" the text of a well-formed JSON array of numbers                *)
(***************************************************************************)
Ficha(t, items) == [t |-> t, items |-> items]

\* _parse_insights: the slice from the first [ to the last ], json.loads, one
\* EvaluationInsight per object.  Whatever raises inside (find on None, a
\* slice that is no JSON, an element that is no object) gives the empty list.
ParseInsights(resp) ==
    IF ~resp.es_texto THEN <<>>
    ELSE LET toks == resp.toks
             abre == {i \in 1..Len(toks) : toks[i].t \in {"lbk", "arr", "nums"}}
             cierra == {i \in 1..Len(toks) : toks[i].t \in {"rbk", "arr", "nums"}}
         IN IF abre = {} \/ cierra = {} THEN <<>>
            ELSE LET start == CHOOSE i \in abre : \A j \in abre : i <= j
                     end == CHOOSE i \in cierra : \A j \in cierra : j <= i
                 IN IF start = end /\ toks[start].t = "arr"
                    THEN [k \in 1..Len(toks[start].items) |->
                            [gravedad |->
                                IF toks[start].items[k] = "absent" THEN "media"
                                ELSE toks[start].items[k]]]
                    ELSE <<>>

\* The outcome of one call: what it raised ("" when it returned), the list
\* returned and the number of backend calls made.
Salida(raised, lista, n) == [raised |-> raised, insights |-> lista, llamadas |-> n]

\* analyze_evaluation_trends.  _build_trend_analysis_prompt (line 66, before
\* the try) divides by len(notas_totales) on line 184.  Inside the try the
\* provider decides the call; a provider that is neither "github" nor
\* "ollama" leaves insights_text unbound and line 106 raises into the except.
AnalyzeEvaluationTrends(prov, evals, llm) ==
    IF Len(evals) = 0 THEN Salida("ZeroDivisionError", <<>>, 0)
    ELSE IF prov \notin {"github", "ollama"} THEN Salida("", <<>>, 0)
    ELSE IF llm.falla THEN Salida("", <<>>, 1)
    ELSE Salida("", ParseInsights(llm.resp), 1)

\* identify_common_issues dispatching on the provider as
\* analyze_evaluation_trends does.
IdentifyCommonIssuesConDespacho(prov, evals, llm) ==
    IF llm.falla THEN Salida("", <<>>, 1)
    ELSE Salida("", ParseInsights(llm.resp), 1)

\* identify_common_issues and generate_improvement_recommendations: the
\* prompt is json.dumps of the argument; the try block calls self.client,
\* which is None when the provider is "ollama" (AttributeError, caught).
IdentifyCommonIssues(prov, evals, llm) ==
    IF prov = "ollama" THEN Salida("", <<>>, 0)
    ELSE IF llm.falla THEN Salida("", <<>>, 1)
    ELSE Salida("", ParseInsights(llm.resp), 1)

\* ---- the calls the model makes ----
FichasMuestra ==
    {Ficha("lbk", <<>>), Ficha("rbk", <<>>), Ficha("w", <<>>),
     Ficha("arr", <<"alta", "absent">>), Ficha("nums", <<>>)}

InitAnalisis ==
    /\ apc = "entrada"
    /\ provider \in {"github", "ollama", "openai"}
    /\ metodo \in {"analyze_evaluation_trends", "identify_common_issues",
                   "generate_improvement_recommendations"}
    /\ evaluations \in SeqsUpTo({250, 550}, MaxEvaluaciones)
    /\ backend \in
          {[falla |-> TRUE, resp |-> None.response],
           [falla |-> FALSE, resp |-> None.response]}
          \cup {[falla |-> FALSE, resp |-> [es_texto |-> TRUE, toks |-> ts]] :
                  ts \in SeqsUpTo(FichasMuestra, MaxTokens)}
    /\ llamadas_backend = 0
    /\ insights = <<>>
    /\ Reposo("analisis")

LlamarAnalisis ==
    /\ apc = "entrada"
    /\ LET r == IF metodo = "analyze_evaluation_trends"
                THEN AnalyzeEvaluationTrends(provider, evaluations, backend)
                ELSE IdentifyCommonIssues(provider, evaluations, backend)
       IN /\ apc' = IF r.raised = "" THEN "returned" ELSE r.raised
          /\ insights' = r.insights
          /\ llamadas_backend' = r.llamadas
    /\ UNCHANGED <<provider, metodo, evaluations, backend>>
    /\ Resto("analisis")

NextAnalisis == LlamarAnalisis

(***************************************************************************)
(* MonitoringAgent (agents/monitoring_agent.py).                           *)
(*                                                                         *)
(* An evaluation dictionary is [estudiante, fecha_evaluacion, nota_final,  *)
(* criterios]; estudiante stands for both 'estudiante_id' and 'estudiante'.*)
(* nota_final is a grade rounded to two decimals                           *)
(* (rubrica_evaluator.py:436), in hundredths.  A feedback text is a        *)
(* sequence of characters.                                                 *)
(***************************************************************************)
thresholds ==
    [nota_baja |-> 300, nota_muy_baja |-> 200, degradacion_rapida |-> 100,
     sin_progreso |-> 20, plagio_similarity |-> 80]

\* a - b on two Python floats that hold two-decimal grades: c is the exact
\* difference in hundredths and e the sign of (float(a) - float(b)) minus the
\* float nearest to c/100.  The pairs listed are those of the sample grades
\* 1.0, 1.2, 2.0, 2.2, 3.0, 4.0 for which IEEE-754 double subtraction does
\* not return the float nearest to the decimal difference
\* (2.2 - 2.0 = 0.20000000000000018, 1.2 - 1.0 = 0.19999999999999996).
RestaFloat(a, b) ==
    LET arriba == {<<100, 120>>, <<220, 100>>, <<220, 120>>, <<220, 200>>,
                   <<220, 300>>, <<220, 400>>}
        abajo == {<<100, 220>>, <<120, 100>>, <<120, 220>>, <<200, 220>>,
                  <<300, 220>>, <<400, 220>>}
    IN [c |-> a - b,
        e |-> IF <<a, b>> \in arriba THEN 1
              ELSE IF <<a, b>> \in abajo THEN -1 ELSE 0]

\* d > t and d < t for a float difference d and a two-decimal literal t.
MayorQue(d, t) == d.c > t \/ (d.c = t /\ d.e > 0)
MenorQue(d, t) == d.c < t \/ (d.c = t /\ d.e < 0)

\* sorted(..., key=fecha_evaluacion, reverse=True): newest first, equal keys
\* in their original order.
RECURSIVE SortedPorFecha(_)
SortedPorFecha(evs) ==
    IF evs = <<>> THEN <<>>
    ELSE LET i == CHOOSE i \in 1..Len(evs) :
                    /\ \A j \in 1..Len(evs) :
                          evs[j].fecha_evaluacion <= evs[i].fecha_evaluacion
                    /\ \A j \in 1..(i - 1) :
                          evs[j].fecha_evaluacion < evs[i].fecha_evaluacion
         IN <<evs[i]>> \o
            SortedPorFecha(SubSeq(evs, 1, i - 1) \o SubSeq(evs, i + 1, Len(evs)))

\* monitor_student_progress: the tendencia of the StudentProgress returned,
\* "None" when None is returned.
MonitorStudentProgress(evs) ==
    IF evs = <<>> THEN "None"
    ELSE LET sorted_evaluations == SortedPorFecha(evs)
             notas == [k \in 1..Len(evs) |-> sorted_evaluations[k].nota_final]
         IN IF Len(notas) >= 2
            THEN LET diferencia == RestaFloat(notas[1], notas[Len(notas)])
                 IN IF MayorQue(diferencia, thresholds.sin_progreso)
                    THEN "mejorando"
                    ELSE IF MenorQue(diferencia, 0 - thresholds.sin_progreso)
                    THEN "empeorando"
                    ELSE "estable"
            ELSE "estable"

\* An Alert: estudiante is the list of the names its estudiante field holds
\* (one name, or the two names joined by " y "); criterio is the criterion of
\* the evidencias of a plagiarism alert, "" otherwise.
Alert(tipo, severidad, estudiante, criterio) ==
    [tipo |-> tipo, severidad |-> severidad, estudiante |-> estudiante,
     criterio |-> criterio]

\* _analyze_student_alerts
AnalyzeStudentAlerts(student_id, evals) ==
    IF evals = <<>> THEN <<>>
    ELSE LET sorted_evaluations == SortedPorFecha(evals)
             student_name == sorted_evaluations[1].estudiante
             latest_nota == sorted_evaluations[1].nota_final
             riesgo ==
                IF latest_nota < thresholds.nota_muy_baja
                THEN <<Alert("riesgo_academico", "critica", <<student_name>>, "")>>
                ELSE IF latest_nota < thresholds.nota_baja
                THEN <<Alert("riesgo_academico", "alta", <<student_name>>, "")>>
                ELSE <<>>
             degradacion ==
                IF Len(sorted_evaluations) >= 2
                   /\ MayorQue(RestaFloat(sorted_evaluations[2].nota_final,
                                          latest_nota),
                               thresholds.degradacion_rapida)
                THEN <<Alert("progreso", "alta", <<student_name>>, "")>>
                ELSE <<>>
             estancamiento ==
                IF Len(sorted_evaluations) >= 3
                   /\ LET notas_recientes ==
                              [k \in 1..3 |-> sorted_evaluations[k].nota_final]
                      IN MenorQue(RestaFloat(MaxSeq(notas_recientes),
                                             MinSeq(notas_recientes)),
                                  thresholds.sin_progreso)
                THEN <<Alert("progreso", "media", <<student_name>>, "")>>
                ELSE <<>>
         IN riesgo \o degradacion \o estancamiento

\* The values of s without repetitions, in the order of their first
\* occurrence: the key order of a dict filled while iterating s.
Unicos(s) ==
    LET Primera(i) == \A j \in 1..(i - 1) : s[j] # s[i]
        RECURSIVE Desde(_)
        Desde(i) == IF i > Len(s) THEN <<>>
                    ELSE (IF Primera(i) THEN <<s[i]>> ELSE <<>>) \o Desde(i + 1)
    IN Desde(1)

\* The overlap measured against the smaller word set.
SimilitudSobreMenor(text1, text2) ==
    LET words1 == SplitWords(Lower(text1), <<>>)
        words2 == SplitWords(Lower(text2), <<>>)
    IN [words1 |-> Cardinality(words1), words2 |-> Cardinality(words2),
        comunes |-> Cardinality(words1 \cap words2),
        mayor |-> Min2(Cardinality(words1), Cardinality(words2))]

\* The word sets of two feedback texts and their overlap:
\* set(text.lower().split()) and len(common_words), max(len, len).
Similitud(text1, text2) ==
    LET words1 == SplitWords(Lower(text1), <<>>)
        words2 == SplitWords(Lower(text2), <<>>)
    IN [words1 |-> Cardinality(words1), words2 |-> Cardinality(words2),
        comunes |-> Cardinality(words1 \cap words2),
        mayor |-> Max2(Cardinality(words1), Cardinality(words2))]

\* _find_text_similarities: the pairs i < j, in loop order, whose texts both
\* have a word and whose similarity comunes / mayor is > 0.5.  The quotient
\* of two small integers compares with 0.5 and with 0.8 as the exact
\* fraction does.
FindTextSimilarities(evaluaciones) ==
    LET RECURSIVE Pares(_, _)
        Pares(i, j) ==
            IF i >= Len(evaluaciones) THEN <<>>
            ELSE IF j > Len(evaluaciones) THEN Pares(i + 1, i + 2)
            ELSE LET sim == Similitud(evaluaciones[i].retroalimentacion,
                                      evaluaciones[j].retroalimentacion)
                 IN (IF sim.words1 > 0 /\ sim.words2 > 0
                        /\ 2 * sim.comunes > sim.mayor
                     THEN <<[student1 |-> evaluaciones[i].estudiante,
                             student2 |-> evaluaciones[j].estudiante,
                             similarity |-> <<sim.comunes, sim.mayor>>]>>
                     ELSE <<>>) \o Pares(i, j + 1)
    IN Pares(1, 2)

\* _detect_plagiarism_patterns: every criterion result of every evaluation
\* goes to the group of its criterion name; each group of two or more is
\* compared pairwise.
DetectPlagiarismPatterns(all) ==
    LET entradas ==
            Concat([i \in 1..Len(all) |->
                      [k \in 1..Len(all[i].criterios) |->
                          [criterio |-> all[i].criterios[k].criterio,
                           estudiante |-> all[i].estudiante,
                           retroalimentacion |->
                               all[i].criterios[k].retroalimentacion]]])
        nombres == Unicos([k \in 1..Len(entradas) |-> entradas[k].criterio])
        DelGrupo(c) == LET Es(e) == e.criterio = c IN SelectSeq(entradas, Es)
        Alertas(c) ==
            IF Len(DelGrupo(c)) < 2 THEN <<>>
            ELSE LET similarities == FindTextSimilarities(DelGrupo(c))
                     Alta(sim) ==
                        100 * sim.similarity[1] >
                            thresholds.plagio_similarity * sim.similarity[2]
                     altas == SelectSeq(similarities, Alta)
                 IN [k \in 1..Len(altas) |->
                        Alert("plagio", "alta",
                              <<altas[k].student1, altas[k].student2>>, c)]
    IN Concat([n \in 1..Len(nombres) |-> Alertas(nombres[n])])

\* generate_alerts: the alerts of each student in the order the students
\* first occur, then the plagiarism alerts, stably sorted by severity.
GenerateAlerts(all) ==
    LET ids == Unicos([i \in 1..Len(all) |-> all[i].estudiante])
        De(id) == LET Es(e) == e.estudiante = id IN SelectSeq(all, Es)
        alertas ==
            Concat([k \in 1..Len(ids) |-> AnalyzeStudentAlerts(ids[k], De(ids[k]))])
            \o DetectPlagiarismPatterns(all)
        Con(sev) == LET Es(a) == a.severidad = sev IN SelectSeq(alertas, Es)
    IN Con("critica") \o Con("alta") \o Con("media") \o Con("baja")

\* ---- the calls the model makes ----
\* Histories of one student (dates in any order, no criterion results) and
\* class evaluations of two students with one criterion result each.
InitMonitoreo ==
    /\ mpc = "entrada"
    /\ student_evaluations \in
          {h \in SeqsUpTo([estudiante : {"A"}, fecha_evaluacion : 1..MaxHistorial,
                           nota_final : {100, 120, 200, 220, 300, 400},
                           criterios : {<<>>}], MaxHistorial) :
              \A i, j \in 1..Len(h) :
                  i # j => h[i].fecha_evaluacion # h[j].fecha_evaluacion}
          \cup
          {[i \in 1..Len(h) |->
              [estudiante |-> h[i].estudiante, fecha_evaluacion |-> i,
               nota_final |-> h[i].nota_final,
               criterios |-> <<[criterio |-> h[i].criterio,
                                retroalimentacion |-> h[i].retroalimentacion]>>]] :
             h \in SeqsUpTo([estudiante : {"A", "B"}, nota_final : {120, 400},
                             criterio : {"c1", "c2"},
                             retroalimentacion :
                                {<<>>, Palabra.bien, Palabra.muy_bien,
                                 <<"M">> \o Tail(Palabra.muy_bien),
                                 Palabra.muy_bien \o <<" ">> \o Palabra.hola}],
                            MaxClaseMonitoreo)}
    /\ tendencia = "idle"
    /\ alerts = <<>>
    /\ Reposo("monitoreo")

MonitorearProgreso ==
    /\ mpc = "entrada"
    /\ mpc' = "progress"
    /\ tendencia' = MonitorStudentProgress(student_evaluations)
    /\ UNCHANGED <<student_evaluations, alerts>>
    /\ Resto("monitoreo")

GenerarAlertas ==
    /\ mpc = "entrada"
    /\ mpc' = "alerts"
    /\ alerts' = GenerateAlerts(student_evaluations)
    /\ UNCHANGED <<student_evaluations, tendencia>>
    /\ Resto("monitoreo")

NextMonitoreo == MonitorearProgreso \/ GenerarAlertas

(***************************************************************************)
(* RecommendationAgent.create_learning_path                                *)
(* (agents/recommendation_agent.py).                                       *)
(*                                                                         *)
(* notas_finales holds the nota_final of each evaluation passed;           *)
(* recommendations is what generate_personalized_recommendations returns   *)
(* for the latest one: records [titulo, prioridad].  The timeline          *)
(* dictionary {"Semana k": titulo} is the sequence of its values, k being  *)
(* the position.                                                           *)
(***************************************************************************)
\* promedio_nota >= t, promedio_nota being sum(...) / len(...) on Python
\* floats and t a literal.  The float average differs from the exact one by
\* rounding only; the lists named are those over the sample grades 2.3,
\* 3.6, 4.0, 6.0, 6.1 whose exact average is 4.0 and whose float average
\* is 3.9999999999999996.
PromedioMayorIgual(notas, t) ==
    LET redondeadas_abajo ==
            {<<230, 610, 360>>, <<610, 230, 360>>,
             <<230, 610, 360, 400>>, <<230, 610, 400, 360>>,
             <<230, 400, 610, 360>>, <<360, 400, 230, 610>>,
             <<610, 230, 360, 400>>, <<610, 230, 400, 360>>,
             <<610, 400, 230, 360>>, <<400, 230, 610, 360>>,
             <<400, 360, 230, 610>>, <<400, 610, 230, 360>>}
    IN \/ SumSeq(notas) > t * Len(notas)
       \/ SumSeq(notas) = t * Len(notas) /\ notas \notin redondeadas_abajo

\* _create_timeline: high_priority[:2], medium_priority[:2], low_priority[:1],
\* one week each, current_week counting from 1.
CreateTimeline(recs) ==
    LET Con(p) == LET Es(r) == r.prioridad = p IN SelectSeq(recs, Es)
        Primeras(lista, n) == SubSeq(lista, 1, Min2(n, Len(lista)))
        elegidas == Primeras(Con("alta"), 2) \o Primeras(Con("media"), 2)
                    \o Primeras(Con("baja"), 1)
    IN [k \in 1..Len(elegidas) |-> elegidas[k].titulo]

\* create_learning_path: what it raised ("" when it returned), nivel_actual
\* and cronograma of the LearningPath.
CreateLearningPath(notas, recs) ==
    IF Len(notas) = 0
    THEN [raised |-> "ZeroDivisionError", nivel_actual |-> "None", cronograma |-> <<>>]
    ELSE [raised |-> "",
          nivel_actual |->
              IF PromedioMayorIgual(notas, 600) THEN "avanzado"
              ELSE IF PromedioMayorIgual(notas, 400) THEN "intermedio"
              ELSE "principiante",
          cronograma |-> CreateTimeline(recs)]

\* ---- the calls the model makes ----
\* Either the grades vary and the recommendations are few, or the grade is
\* one and the recommendations vary; titulo is the position in the list.
InitRuta ==
    /\ lpc = "entrada"
    /\ \E ns \in SeqsUpTo({230, 360, 400, 600, 610}, MaxNotas),
          ps \in SeqsUpTo({"alta", "media", "baja", "urgente"}, MaxRecomendaciones) :
          /\ Len(ns) = 1 \/ Len(ps) <= 1
          /\ notas_finales = ns
          /\ recommendations = [i \in 1..Len(ps) |-> [titulo |-> i, prioridad |-> ps[i]]]
    /\ nivel_actual = "idle"
    /\ cronograma = <<>>
    /\ Reposo("ruta")

CrearRuta ==
    /\ lpc = "entrada"
    /\ LET r == CreateLearningPath(notas_finales, recommendations)
       IN /\ lpc' = IF r.raised = "" THEN "returned" ELSE r.raised
          /\ nivel_actual' = r.nivel_actual
          /\ cronograma' = r.cronograma
    /\ UNCHANGED <<notas_finales, recommendations>>
    /\ Resto("ruta")

NextRuta == CrearRuta

(***************************************************************************)
(* The level descriptors of the evaluation prompt                          *)
(* (LLMEvaluator._build_evaluation_prompt, rubrica_evaluator.py:218-220,   *)
(* and MetaPromptingEvaluator._format_evaluation_levels,                   *)
(* advanced_evaluator.py:360-366).  A line "- p% (Nota n): ..." is the     *)
(* record [porcentaje, nota], nota being the decimal printed, in tenths.   *)
(***************************************************************************)
\* 1.0 + (porcentaje / 100) * 7.0
NotaDeNivelSobreSiete(p) == 100 + (p * 700) \div 100

\* nota = 1.0 + (porcentaje / 100) * 6.0, in hundredths.  For an integer
\* percentage the float differs from this value by rounding only.
NotaDeNivel(p) == 100 + (p * 600) \div 100

\* f"{nota:.1f}": the nearest tenth.  1.0 + 0.06 p is never half-way between
\* two tenths, so the float's rounding error does not reach the result.
FormatoUnDecimal(nota) == (nota + 5) \div 10

\* The lines both methods write for the keys of criterio.niveles, in the
\* order of the dictionary.
FormatEvaluationLevels(claves) ==
    [k \in 1..Len(claves) |->
        [porcentaje |-> claves[k], nota |-> FormatoUnDecimal(NotaDeNivel(claves[k]))]]

\* ---- the calls the model makes ----
\* The keys of niveles are distinct: the six of niveles_estandar
\* (rubrica_evaluator.py:621-628) and two others.
InitPrompt ==
    /\ qpc = "entrada"
    /\ evaluador \in {"LLMEvaluator", "MetaPromptingEvaluator"}
    /\ niveles \in {c \in SeqsUpTo({0, 20, 33, 40, 60, 75, 80, 100}, MaxNiveles) :
                        \A i, j \in 1..Len(c) : i # j => c[i] # c[j]}
    /\ lineas = <<>>
    /\ Reposo("prompt")

FormatearNiveles ==
    /\ qpc = "entrada"
    /\ qpc' = "salida"
    /\ lineas' = FormatEvaluationLevels(niveles)
    /\ UNCHANGED <<evaluador, niveles>>
    /\ Resto("prompt")

NextPrompt == FormatearNiveles

(***************************************************************************)
(* Specifications.                                                         *)
(***************************************************************************)
Spec == InitMasivo /\ [][NextMasivo]_vars

SpecClase == InitClase /\ [][NextClase]_vars

SpecParse == InitParse /\ [][NextParse]_vars

SpecNota == InitNota /\ [][NextNota]_vars

SpecProyecto == InitProyecto /\ [][NextProyecto]_vars

SpecRubrica == InitRubrica /\ [][NextRubrica]_vars

\* Either evaluation entry point: evaluar_proyecto or evaluate_repository.
SpecEvaluaciones ==
    (InitProyecto \/ InitRubrica) /\ [][NextProyecto \/ NextRubrica]_vars

SpecAnalisis == InitAnalisis /\ [][NextAnalisis]_vars

SpecMonitoreo == InitMonitoreo /\ [][NextMonitoreo]_vars

SpecRuta == InitRuta /\ [][NextRuta]_vars

SpecPrompt == InitPrompt /\ [][NextPrompt]_vars

(***************************************************************************)
(* Claims about EvaluadorMasivo.evaluar_todos (Spec).                      *)
(***************************************************************************)
\* How often subject i occurs in a list of names.
Veces(nombres, i) == Cardinality({k \in 1..Len(nombres) : nombres[k] = i})

NombresExitosas ==
    [k \in 1..Len(evaluaciones_exitosas) |-> evaluaciones_exitosas[k][1]]

\* The unit of work of this subject raises (while evaluating or while saving).
UnidadLanza(est) == est.acceso = "otra_exc" \/ ~est.guardar_ok

\* C1: when evaluar_todos has returned, every input subject is in exactly one
\* of the successes list and the failures list, exactly once, so the two
\* lists together hold len(estudiantes) entries, for every paralelo >= 1 and
\* every completion order.
C1_ParticionCompleta ==
    pc = "returned" =>
        /\ \A i \in 1..Len(estudiantes) :
              Veces(NombresExitosas, i) + Veces(evaluaciones_fallidas, i) = 1
        /\ Len(evaluaciones_exitosas) + Len(evaluaciones_fallidas) = Len(estudiantes)
        /\ estadisticas.evaluaciones_fallidas = evaluaciones_fallidas

\* A parallel run of three subjects that returned with successes collected
\* out of input order and with a failure.
C1_Witness ==
    /\ pc = "returned"
    /\ paralelo > 1
    /\ Len(estudiantes) = 3
    /\ Len(evaluaciones_fallidas) >= 1
    /\ Len(evaluaciones_exitosas) = 2
    /\ evaluaciones_exitosas[1][1] > evaluaciones_exitosas[2][1]

\* C2: an exception raised inside one subject's unit of work never leaves
\* evaluar_todos (the run never ends in a unit's exception), the subject is
\* recorded as a failure, and what is recorded for every subject depends on
\* that subject alone: a failed sibling changes nothing, in both modes.
C2_AislamientoDeFallas ==
    /\ pc # "raised_unidad"
    /\ pc = "returned" =>
          \A i \in 1..Len(estudiantes) :
              IF UnidadLanza(estudiantes[i])
              THEN /\ Veces(evaluaciones_fallidas, i) = 1
                   /\ Veces(NombresExitosas, i) = 0
              ELSE /\ Veces(evaluaciones_fallidas, i) = 0
                   /\ \E k \in 1..Len(evaluaciones_exitosas) :
                         /\ evaluaciones_exitosas[k][1] = i
                         /\ evaluaciones_exitosas[k][2].estudiante_nombre = i
                         /\ evaluaciones_exitosas[k][2].estado # "None"

\* A parallel run that returned although one unit raised while evaluating
\* and another while saving, with a sibling recorded as a success.
C2_Witness ==
    /\ pc = "returned"
    /\ paralelo > 1
    /\ \E i, j, k \in 1..Len(estudiantes) :
          /\ estudiantes[i].acceso = "otra_exc"
          /\ estudiantes[j].acceso = "ok" /\ ~estudiantes[j].guardar_ok
          /\ Veces(evaluaciones_fallidas, i) = 1
          /\ Veces(evaluaciones_fallidas, j) = 1
          /\ Veces(NombresExitosas, k) = 1

EsEvaluacionError(ev, i) ==
    /\ ev.estudiante_nombre = i
    /\ ev.estado = "ERROR"
    /\ ev.nota_final = 100
    /\ ev.porcentaje_total = 0
    /\ ev.n_criterios = 0
    /\ ev.resumen_general = "Error al evaluar"

C4_CadaAlumnoReportado ==
    cpc = "returned" =>
        \A i \in 1..Len(students_data) :
            Veces(EvaluadosReportados(class_results), i)
              + (IF i \in FallidosReportados(class_results) THEN 1 ELSE 0) = 1

(***************************************************************************)
(* Claims about the response parser (SpecParse).                           *)
(***************************************************************************)
\* The object the parser decodes from a response, if any.
Decodificado(resp) ==
    JsonLoads(DropControl(Slice(resp.toks, FindLB(resp.toks),
                                RFindRBPlus1(resp.toks))))

EsObjetoDecodificable(resp) ==
    /\ resp.es_texto
    /\ FindLB(resp.toks) # -1
    /\ RFindRBPlus1(resp.toks) # 0
    /\ Decodificado(resp).ok

\* C5: for every text that is not a decodable JSON object the parser returns
\* a result (it does not raise) whose score is in [0,100] and whose grade is
\* in [1.0,7.0].
C5_NoJsonEnRango ==
    (ppc = "salida" /\ response.es_texto /\ ~EsObjetoDecodificable(response)) =>
        /\ resultado.ruta # "ninguna"
        /\ resultado.puntuacion \in 0..100
        /\ resultado.nota \in 100..700

\* Braces that enclose invalid JSON, parsed into the neutral fallback.
C5_Witness ==
    /\ ppc = "salida"
    /\ response = [es_texto |-> TRUE, toks |-> <<Marca.lb, W(Palabra.hola), Marca.rb>>]
    /\ resultado.ruta = "fallback"
    /\ resultado.puntuacion = 60

EsNumeroFinito(v) == v.ty \in {"int", "float"}

EsListaDeStrings(v) ==
    v.ty = "list" /\ \A k \in 1..Len(v.l) : v.l[k].ty = "str"

\* Every field of the decoded object has the type the prompt asks for.
BienTipado(o) ==
    /\ EsNumeroFinito(o.puntuacion)
    /\ EsNumeroFinito(o.nota)
    /\ o.retroalimentacion.ty = "str"
    /\ EsListaDeStrings(o.evidencias)
    /\ EsListaDeStrings(o.sugerencias)

Clamp(x, lo, hi) == IF x < lo THEN lo ELSE IF x > hi THEN hi ELSE x

\* The integer part of a number given in hundredths, toward zero.
ParteEntera(n) ==
    CHOOSE k \in -1000..1000 :
        IF n >= 0 THEN 100 * k <= n /\ n < 100 * (k + 1)
        ELSE 100 * k >= n /\ n > 100 * (k - 1)

CamposSinCambio(o) ==
    /\ resultado.retroalimentacion = [plantilla |-> "dato", s |-> o.retroalimentacion.s]
    /\ resultado.evidencias = o.evidencias.l
    /\ resultado.sugerencias = o.sugerencias.l

\* C6 as stated: for every decodable, well-typed response the result carries
\* score = clamp(score, 0, 100), grade = clamp(grade, 1.0, 7.0) and the
\* response's feedback, evidence and suggestions unchanged.
C6_Original ==
    (ppc = "salida" /\ EsObjetoDecodificable(response)
        /\ BienTipado(Decodificado(response).data)) =>
        LET o == Decodificado(response).data
        IN /\ 100 * resultado.puntuacion = Clamp(o.puntuacion.n, 0, 10000)
           /\ resultado.nota = Clamp(o.nota.n, 100, 700)
           /\ CamposSinCambio(o)

\* C6 amended: the score is first truncated toward zero to an integer, then
\* clamped to [0,100]; grade, feedback, evidence and suggestions as stated.
C6_Truncado ==
    (ppc = "salida" /\ EsObjetoDecodificable(response)
        /\ BienTipado(Decodificado(response).data)) =>
        LET o == Decodificado(response).data
        IN /\ resultado.ruta = "primario"
           /\ resultado.puntuacion = Clamp(ParteEntera(o.puntuacion.n), 0, 100)
           /\ resultado.nota = Clamp(o.nota.n, 100, 700)
           /\ CamposSinCambio(o)

WellTypedObj(a, b) ==
    [puntuacion |-> a, nota |-> b, retroalimentacion |-> JStr(Palabra.bien),
     evidencias |-> JList(<<EStr(Palabra.readme)>>),
     sugerencias |-> JList(<<EStr(Palabra.error)>>)]

\* The in-range response (85, 6.1) parsed into exactly those values, after a
\* leading word that the brace search skips.
C6_Witness ==
    /\ ppc = "salida"
    /\ response = [es_texto |-> TRUE,
                   toks |-> <<W(Palabra.hola), OBJ(WellTypedObj(JInt(85), JFloat(610)))>>]
    /\ resultado.ruta = "primario"
    /\ resultado.puntuacion = 85
    /\ resultado.nota = 610
    /\ resultado.evidencias = <<EStr(Palabra.readme)>>

\* One of the violations the claim lists holds of the response.
Violacion(resp) ==
    \/ FindLB(resp.toks) = -1
    \/ RFindRBPlus1(resp.toks) = 0
    \/ ~Decodificado(resp).ok
    \/ LET o == Decodificado(resp).data
       IN \/ o.puntuacion.ty \notin {"int", "float", "nan", "inf"}
          \/ o.nota.ty \notin {"int", "float", "nan", "inf"}
          \/ o.retroalimentacion.ty # "str"
          \/ ~EsListaDeStrings(o.evidencias)
          \/ ~EsListaDeStrings(o.sugerencias)

\* C7: any violation (no braces, decode failure, score or grade absent or not
\* numeric, feedback not a string, evidence or suggestions not a list of
\* strings) makes the parser return the fallback result; the primary result
\* is returned only when no violation holds.
C7_ViolacionDaFallback ==
    (ppc = "salida" /\ response.es_texto /\ Violacion(response)) =>
        resultado.ruta = "fallback"

Ocurre(kws, texto) == \E kw \in kws : Contains(texto, kw)

TablaEscalonada ==
    { <<10000, 700>>, <<9000, 650>>, <<8000, 600>>, <<7000, 550>>,
      <<6000, 500>>, <<5000, 450>>, <<4000, 400>>, <<3000, 350>>,
      <<2000, 300>>, <<1000, 200>>, <<0, 100>> }

NotaDeMayorClave(p) ==
    LET e == CHOOSE x \in TablaEscalonada :
                /\ x[1] <= p
                /\ \A y \in TablaEscalonada : y[1] <= p => y[1] <= x[1]
    IN e[2]

EsFallback == ppc = "salida" /\ resultado.ruta \in {"fallback", "minimo"}

C10_ConversionEscalonada ==
    npc = "salida" =>
        /\ nota_kedro = NotaDeMayorClave(porcentaje)
        /\ nota_eval = nota_kedro
        /\ porcentaje = 10000 => nota_kedro = 700
        /\ porcentaje = 0 => nota_kedro = 100
        /\ porcentaje = 6500 => nota_kedro = 500

\* 65% converted to 5.0 by both converters.
C10_Witness ==
    /\ npc = "salida"
    /\ porcentaje = 6500
    /\ nota_kedro = 500
    /\ nota_eval = 500

\* The percentages at which the table steps, with their neighbours.
PorcentajesDeBorde ==
    {u + d : u \in {0, 1000, 2000, 3000, 4000, 5000, 6000, 7000, 8000, 9000,
                    10000},
             d \in {-1, 0, 1}} \cap (0..10000)

\* C11: the conversion is monotonically non-decreasing: for every converted
\* percentage p2 in [0,100] and every p1 <= p2 (the percentage just below
\* p2 and every percentage at or next to a step of the table),
\* grade(p1) <= grade(p2).
C11_Monotona ==
    npc = "salida" =>
        \A p1 \in PorcentajesDeBorde \cup {Max2(0, porcentaje - 1)} :
            p1 <= porcentaje => PorcentajeANotaChilena(p1) <= nota_kedro

\* 80% converted to 6.0 while the percentage just below converts to 5.5.
C11_Witness ==
    /\ npc = "salida"
    /\ porcentaje = 8000
    /\ nota_kedro = 600
    /\ PorcentajeANotaChilena(porcentaje - 1) = 550

(***************************************************************************)
(* Claims about KedroEvaluator.evaluar_proyecto (SpecProyecto).            *)
(***************************************************************************)
\* Sum of score x weight over the criterion results of a record.
SumaPonderada(criterios) ==
    SumSeq([i \in 1..Len(criterios) |->
               criterios[i].puntuacion * criterios[i].ponderacion])

SumaBonificaciones(ev) ==
    ev.bonificaciones_aplicadas.kedro_viz
    + ev.bonificaciones_aplicadas.tests_unitarios

SumaPenalizaciones(ev) ==
    ev.penalizaciones_aplicadas.datasets_faltantes
    + ev.penalizaciones_aplicadas.sin_estructura_kedro

\* C13: the final percentage of every evaluation evaluar_proyecto returns is
\* min(100, max(0, sum(score x weight) + sum(bonuses) - sum(penalties))), so
\* it lies in [0,100] for every combination of scores, bonuses and
\* penalties, and the final grade is the stepped conversion of it.
C13_PorcentajeAcotado ==
    epc = "returned" =>
        LET bruto == SumaPonderada(evaluacion_kedro.criterios_evaluados)
                     + SumaBonificaciones(evaluacion_kedro)
                     - SumaPenalizaciones(evaluacion_kedro)
        IN /\ evaluacion_kedro.porcentaje_total = Clamp(bruto, 0, 10000)
           /\ evaluacion_kedro.porcentaje_total \in 0..10000
           /\ evaluacion_kedro.nota_final =
                 NotaDeMayorClave(evaluacion_kedro.porcentaje_total)

\* An evaluation whose penalties exceed its weighted score and its bonus:
\* the raw figure is negative and the percentage is clamped to 0.
C13_Witness ==
    /\ epc = "returned"
    /\ evaluacion_kedro.estado = "REPROBADO"
    /\ SumaBonificaciones(evaluacion_kedro) > 0
    /\ SumaPenalizaciones(evaluacion_kedro) > 0
    /\ evaluacion_kedro.puntuacion_total < 0
    /\ evaluacion_kedro.porcentaje_total = 0
    /\ evaluacion_kedro.nota_final = 100

PesosValidos(criterios) ==
    /\ \A i \in 1..Len(criterios) : criterios[i].ponderacion \in 0..100
    /\ SumSeq([i \in 1..Len(criterios) |-> criterios[i].ponderacion]) \in 98..102

\* Sum of score x weight over the results of an EvaluacionCompleta, in
\* hundredths of a percentage point.
PorcentajePonderado(resultados_, rub) ==
    SumSeq([i \in 1..Len(resultados_) |->
               resultados_[i].puntuacion.n
               * CriterioDe(rub, resultados_[i].criterio).ponderacion]) \div 100

\* C12: in both code paths the final figure sums score x weight and the
\* final grade is the stepped conversion of that weighted percentage: for
\* evaluar_proyecto without bonus or penalty, and for evaluate_repository
\* on a rubric with valid weights (so ten criteria of weight 0.10 all
\* scoring 80 give 80% and grade 6.0).
C12_PuntuacionPorPonderacion ==
    /\ (epc = "returned" /\ evaluacion_kedro.estado # "ERROR"
          /\ ~aplicar_bonificaciones) =>
          /\ evaluacion_kedro.porcentaje_total =
                Clamp(SumaPonderada(evaluacion_kedro.criterios_evaluados), 0, 10000)
          /\ evaluacion_kedro.nota_final =
                NotaDeMayorClave(evaluacion_kedro.porcentaje_total)
    /\ (rpc = "returned" /\ PesosValidos(rubrica)) =>
          evaluacion_completa.nota_final =
              NotaDeMayorClave(
                  Clamp(PorcentajePonderado(evaluacion_completa.criterios, rubrica),
                        0, 10000))

\* The ten criteria of weight 0.10, each answered with score 80 and the
\* grade 5.8 the prompt's formula gives: evaluate_repository returned 5.8.
C12_DiezCriteriosOchenta ==
    /\ rpc = "returned"
    /\ ~use_advanced
    /\ Len(rubrica) = 10
    /\ \A i \in 1..10 :
          /\ rubrica[i].ponderacion = 10
          /\ evaluacion_completa.criterios[i].puntuacion.n = 8000
          /\ evaluacion_completa.criterios[i].nota.n = 580
    /\ evaluacion_completa.nota_final = 580

\* C15: load_rubrica_from_dict fails when a weight is outside [0,1] or the
\* weights' sum is off 1.0 by more than 0.02, so every rubric it returned
\* has valid weights.
C15_CargaValida ==
    rpc \notin {"idle", "load"} => PesosValidos(rubrica)

\* C16 as stated: every evaluation record holds one result per criterion of
\* its rubric, in the rubric's order, so its list of results is as long as
\* the rubric; the rubric is loaded in definition order.
C16_Original ==
    /\ epc = "returned" =>
          /\ Len(evaluacion_kedro.criterios_evaluados) = Len(RubricaKedro)
          /\ \A i \in 1..Len(evaluacion_kedro.criterios_evaluados) :
                evaluacion_kedro.criterios_evaluados[i].nombre = RubricaKedro[i].nombre
    /\ rpc = "returned" =>
          /\ Len(evaluacion_completa.criterios) = Len(rubrica)
          /\ \A i \in 1..Len(evaluacion_completa.criterios) :
                evaluacion_completa.criterios[i].criterio = rubrica[i].nombre

\* C16 amended: every evaluation record other than the synthetic ERROR
\* evaluation holds one result per criterion of its rubric, in the rubric's
\* order; the ERROR evaluation holds no result; the rubric is loaded in
\* definition order.
C16_SalvoError ==
    /\ epc = "returned" =>
          IF evaluacion_kedro.estado = "ERROR"
          THEN evaluacion_kedro.criterios_evaluados = <<>>
          ELSE /\ Len(evaluacion_kedro.criterios_evaluados) = Len(RubricaKedro)
               /\ Len(RubricaKedro) = NumCriteriosKedro
               /\ \A i \in 1..Len(RubricaKedro) :
                     evaluacion_kedro.criterios_evaluados[i].nombre
                        = RubricaKedro[i].nombre
    /\ rpc \notin {"idle", "load"} =>
          /\ Len(rubrica) = Len(rubrica_dict)
          /\ \A i \in 1..Len(rubrica) : rubrica[i].nombre = rubrica_dict[i].nombre
          /\ Len(resultados_criterios) <= Len(rubrica)
          /\ \A i \in 1..Len(resultados_criterios) :
                resultados_criterios[i].criterio = rubrica[i].nombre
    /\ rpc = "returned" =>
          /\ evaluacion_completa.criterios = resultados_criterios
          /\ Len(evaluacion_completa.criterios) = Len(rubrica)

\* A passing Kedro evaluation with its ten results in rubric order.
C16_Witness ==
    /\ epc = "returned"
    /\ evaluacion_kedro.estado = "APROBADO"
    /\ Len(evaluacion_kedro.criterios_evaluados) = 10
    /\ evaluacion_kedro.criterios_evaluados[1].nombre = RubricaKedro[1].nombre
    /\ evaluacion_kedro.criterios_evaluados[10].nombre = RubricaKedro[10].nombre

\* C17: every criterion result RubricaEvaluator puts in an evaluation,
\* whichever path produced it, has a numeric score in [0,100] and a numeric
\* grade in [1.0,7.0].
C17_ResultadosEnRango ==
    \A i \in 1..Len(resultados_criterios) :
        /\ resultados_criterios[i].puntuacion.ty \in {"int", "float"}
        /\ resultados_criterios[i].puntuacion.n \in 0..10000
        /\ resultados_criterios[i].nota.ty \in {"int", "float"}
        /\ resultados_criterios[i].nota.n \in 100..700

\* C18: when the backend call of LLMEvaluator.evaluate_criterion fails, the
\* result is the one the parser's fallback path produces (not an error
\* result), and the run goes on to the remaining criteria.
C18_FalloAbsorbidoPorFallback ==
    /\ \A i \in 1..Len(resultados_criterios) :
          (~use_advanced /\ llamadas[i].falla) =>
              /\ resultados_criterios[i].ruta \in {"fallback", "minimo"}
              /\ LET f == GenerateFallbackEvaluation(llamadas[i].resp)
                 IN /\ resultados_criterios[i].puntuacion = JInt(f.puntuacion)
                    /\ resultados_criterios[i].nota = JFloat(f.nota)
    /\ rpc = "returned" => Len(resultados_criterios) = Len(rubrica)

(***************************************************************************)
(* Further claims about EvaluadorMasivo.evaluar_todos (Spec).              *)
(***************************************************************************)
\* A list of subjects is in input order: strictly increasing positions.
EnOrdenDeEntrada(nombres) ==
    \A k \in 1..(Len(nombres) - 1) : nombres[k] < nombres[k + 1]

\* The subjects whose outcome has been recorded.
Registrados ==
    {NombresExitosas[k] : k \in 1..Len(NombresExitosas)}
    \cup {evaluaciones_fallidas[k] : k \in 1..Len(evaluaciones_fallidas)}

\* C19: with paralelo = 1 the units run one after another in input order:
\* whenever the loop is about to run the unit at position indice, exactly
\* the subjects before that position have their outcome recorded, and the
\* successes list and the failures list each keep the input order.
C19_SecuencialEnOrden ==
    (paralelo = 1 /\ pc \in {"for", "returned", "raised_guardar_resumen"}) =>
        /\ Registrados = 1..(indice - 1)
        /\ indice <= Len(estudiantes) + 1
        /\ pc = "returned" => indice = Len(estudiantes) + 1
        /\ EnOrdenDeEntrada(NombresExitosas)
        /\ EnOrdenDeEntrada(evaluaciones_fallidas)
        /\ \A i \in DOMAIN futuros : futuros[i] = "no_enviado"

\* A sequential run of three subjects in the middle of its loop: the first
\* two are recorded as successes in input order, the third has not started.
C19_Witness ==
    /\ paralelo = 1
    /\ pc = "for"
    /\ Len(estudiantes) = 3
    /\ indice = 3
    /\ NombresExitosas = <<1, 2>>
    /\ evaluaciones_fallidas = <<>>

\* The final grades of the successes.
NotasExitosas ==
    {<<k, evaluaciones_exitosas[k][2].nota_final>> :
        k \in 1..Len(evaluaciones_exitosas)}

RECURSIVE SumaDeNotas(_)
SumaDeNotas(S) ==
    IF S = {} THEN 0
    ELSE LET x == CHOOSE y \in S : TRUE IN x[2] + SumaDeNotas(S \ {x})

EsArregloDeInsights(resp) ==
    /\ resp.es_texto
    /\ \E i \in 1..Len(resp.toks) :
          /\ resp.toks[i].t = "arr"
          /\ \A j \in 1..(i - 1) : resp.toks[j].t \in {"w", "rbk"}
          /\ \A j \in (i + 1)..Len(resp.toks) : resp.toks[j].t \in {"w", "lbk"}

\* C21: analyze_evaluation_trends and identify_common_issues never raise,
\* for every collection of evaluations (the empty one included) and every
\* backend outcome; when the backend call fails or the response is no JSON
\* array of insights they return the empty list.
C21_NuncaLanza ==
    (metodo \in {"analyze_evaluation_trends", "identify_common_issues"}
     /\ apc # "entrada") =>
        /\ apc = "returned"
        /\ (backend.falla \/ ~EsArregloDeInsights(backend.resp)) => insights = <<>>

Historia(id) ==
    LET propias == {i \in 1..Len(student_evaluations) :
                        student_evaluations[i].estudiante = id}
        Puesto(k) ==
            CHOOSE i \in propias :
                Cardinality({j \in propias :
                    student_evaluations[j].fecha_evaluacion >
                        student_evaluations[i].fecha_evaluacion}) = k - 1
    IN [k \in 1..Cardinality(propias) |-> student_evaluations[Puesto(k)].nota_final]

\* The input is the history of the single subject "A".
UnSoloSujeto ==
    /\ student_evaluations # <<>>
    /\ \A i \in 1..Len(student_evaluations) :
          student_evaluations[i].estudiante = "A"

\* C22: monitor_student_progress compares the most recent grade with the
\* earliest one: improving if latest - earliest > 0.2, worsening if
\* latest - earliest < -0.2, stable otherwise and for a single evaluation.
C22_Tendencia ==
    (mpc = "progress" /\ UnSoloSujeto) =>
        LET h == Historia("A")
            delta == h[1] - h[Len(h)]
        IN tendencia = IF delta > 20 THEN "mejorando"
                       ELSE IF delta < -20 THEN "empeorando"
                       ELSE "estable"

\* C23: the alerts of _analyze_student_alerts for a subject are exactly
\* those of the rules whose condition holds on the subject's history:
\* latest < 2.0 academic_risk/critical; 2.0 <= latest < 3.0
\* academic_risk/high; previous - latest > 1.0 progress/high; max - min over
\* the last 3 evaluations < 0.2 progress/medium; nothing else.
C23_ReglasDeAlerta ==
    mpc = "alerts" =>
        \A id \in {student_evaluations[i].estudiante :
                        i \in 1..Len(student_evaluations)} :
            LET h == Historia(id)
                Hay(tipo, sev) ==
                    \E k \in 1..Len(alerts) : alerts[k] = Alert(tipo, sev, <<id>>, "")
                propias == {k \in 1..Len(alerts) :
                                alerts[k].tipo # "plagio" /\ alerts[k].estudiante = <<id>>}
                critica == h[1] < 200
                alta == 200 <= h[1] /\ h[1] < 300
                caida == Len(h) >= 2 /\ h[2] - h[1] > 100
                estancado ==
                    Len(h) >= 3 /\
                    MaxSeq(SubSeq(h, 1, 3)) - MinSeq(SubSeq(h, 1, 3)) < 20
                Uno(b) == IF b THEN 1 ELSE 0
            IN /\ Hay("riesgo_academico", "critica") <=> critica
               /\ Hay("riesgo_academico", "alta") <=> alta
               /\ Hay("progreso", "alta") <=> caida
               /\ Hay("progreso", "media") <=> estancado
               /\ Cardinality(propias) =
                    Uno(critica) + Uno(alta) + Uno(caida) + Uno(estancado)

\* The pairs i < j of evaluations whose (single) result is on the same
\* criterion, and the lowercase word set of the feedback of evaluation i.
ParesDelMismoCriterio ==
    {p \in (1..Len(student_evaluations)) \X (1..Len(student_evaluations)) :
        /\ p[1] < p[2]
        /\ student_evaluations[p[1]].criterios # <<>>
        /\ student_evaluations[p[2]].criterios # <<>>
        /\ student_evaluations[p[1]].criterios[1].criterio =
           student_evaluations[p[2]].criterios[1].criterio}

PalabrasDe(i) ==
    SplitWords(Lower(student_evaluations[i].criterios[1].retroalimentacion), <<>>)

\* The candidates _find_text_similarities reports for the pair p alone.
CandidatosDe(p) ==
    FindTextSimilarities(
        <<[estudiante |-> student_evaluations[p[1]].estudiante,
           retroalimentacion |->
               student_evaluations[p[1]].criterios[1].retroalimentacion],
          [estudiante |-> student_evaluations[p[2]].estudiante,
           retroalimentacion |->
               student_evaluations[p[2]].criterios[1].retroalimentacion]>>)

\* The plagiarism alerts on criterion c.
PlagiosEn(c) ==
    {k \in 1..Len(alerts) : alerts[k].tipo = "plagio" /\ alerts[k].criterio = c}

\* C24 as stated: similarity is |A & B| / max(|A|, |B|) for every two texts,
\* 1.0 for a text and itself; a pair is a candidate iff similarity > 0.5 and
\* raises a plagiarism alert of severity high iff similarity > 0.8.
C24_SimilitudDeTodoTexto ==
    mpc = "alerts" =>
        /\ \A p \in ParesDelMismoCriterio :
              LET A == PalabrasDe(p[1])
                  B == PalabrasDe(p[2])
                  comunes == Cardinality(A \cap B)
                  mayor == Max2(Cardinality(A), Cardinality(B))
                  uno == A = B
              IN /\ CandidatosDe(p) # <<>> <=> (uno \/ 2 * comunes > mayor)
                 /\ (uno /\ CandidatosDe(p) # <<>>) =>
                        CandidatosDe(p)[1].similarity[1] =
                            CandidatosDe(p)[1].similarity[2]
        /\ \A c \in {"c1", "c2"} :
              Cardinality(PlagiosEn(c)) =
                 Cardinality({p \in ParesDelMismoCriterio :
                    /\ student_evaluations[p[1]].criterios[1].criterio = c
                    /\ \/ PalabrasDe(p[1]) = PalabrasDe(p[2])
                       \/ 5 * Cardinality(PalabrasDe(p[1]) \cap PalabrasDe(p[2])) >
                          4 * Max2(Cardinality(PalabrasDe(p[1])),
                                   Cardinality(PalabrasDe(p[2])))})

\* C24: for two texts that each have at least one word the similarity is
\* |A & B| / max(|A|, |B|) over their lowercase word sets (1.0 for equal
\* word sets, 0.0 for disjoint ones); such a pair is a candidate iff its
\* similarity is > 0.5 and raises a plagiarism alert of severity high iff it
\* is > 0.8.  A pair with a text that has no word is never a candidate.
C24_Similitud ==
    mpc = "alerts" =>
        /\ \A p \in ParesDelMismoCriterio :
              LET A == PalabrasDe(p[1])
                  B == PalabrasDe(p[2])
                  comunes == Cardinality(A \cap B)
                  mayor == Max2(Cardinality(A), Cardinality(B))
              IN IF A = {} \/ B = {} THEN CandidatosDe(p) = <<>>
                 ELSE /\ CandidatosDe(p) # <<>> <=> 2 * comunes > mayor
                      /\ CandidatosDe(p) # <<>> =>
                            /\ Len(CandidatosDe(p)) = 1
                            /\ CandidatosDe(p)[1].similarity = <<comunes, mayor>>
                      /\ A = B => comunes = mayor
                      /\ A \cap B = {} => comunes = 0
        /\ \A c \in {"c1", "c2"} :
              /\ \A k \in PlagiosEn(c) : alerts[k].severidad = "alta"
              /\ Cardinality(PlagiosEn(c)) =
                    Cardinality({p \in ParesDelMismoCriterio :
                       /\ student_evaluations[p[1]].criterios[1].criterio = c
                       /\ PalabrasDe(p[1]) # {}
                       /\ PalabrasDe(p[2]) # {}
                       /\ 5 * Cardinality(PalabrasDe(p[1]) \cap PalabrasDe(p[2])) >
                          4 * Max2(Cardinality(PalabrasDe(p[1])),
                                   Cardinality(PalabrasDe(p[2])))})

\* Two subjects whose feedback on the same criterion differs only in case:
\* similarity 1.0 and one plagiarism alert.
C24_Witness ==
    /\ mpc = "alerts"
    /\ \E p \in ParesDelMismoCriterio :
          /\ student_evaluations[p[1]].estudiante # student_evaluations[p[2]].estudiante
          /\ student_evaluations[p[1]].criterios[1].retroalimentacion #
             student_evaluations[p[2]].criterios[1].retroalimentacion
          /\ CandidatosDe(p) # <<>>
          /\ CandidatosDe(p)[1].similarity = <<2, 2>>
    /\ \E k \in 1..Len(alerts) : alerts[k].tipo = "plagio"

\* C29: every plagiarism alert of generate_alerts names two distinct
\* subjects that both have a result on the criterion of the alert; two
\* evaluations of one subject never produce a plagiarism alert.
C29_SujetosDistintos ==
    mpc = "alerts" =>
        \A k \in 1..Len(alerts) :
            alerts[k].tipo = "plagio" =>
                /\ alerts[k].estudiante[1] # alerts[k].estudiante[2]
                /\ \A n \in 1..2 :
                      \E i \in 1..Len(student_evaluations) :
                          /\ student_evaluations[i].estudiante = alerts[k].estudiante[n]
                          /\ \E c \in 1..Len(student_evaluations[i].criterios) :
                                student_evaluations[i].criterios[c].criterio =
                                    alerts[k].criterio

TitulosDe(p) ==
    LET Es(r) == r.prioridad = p
        propias == SelectSeq(recommendations, Es)
    IN [k \in 1..Len(propias) |-> propias[k].titulo]

\* C26: _create_timeline fills weekly slots numbered from 1, one item per
\* slot: high-priority items first (as many of them as are scheduled), then
\* the medium-priority items, then the low-priority items.
C26_TodasProgramadas ==
    lpc = "returned" =>
        \E n \in 0..Len(TitulosDe("alta")) :
            cronograma = SubSeq(TitulosDe("alta"), 1, n)
                         \o TitulosDe("media") \o TitulosDe("baja")

(***************************************************************************)
(* Claims about the level descriptors of the prompt (SpecPrompt).          *)
(***************************************************************************)
\* C27: the grade printed for a level of p percent is 1.0 + (p/100) x 6.0 to
\* one decimal: 100 -> 7.0, 80 -> 5.8, 60 -> 4.6, 40 -> 3.4, 20 -> 2.2 and
\* 0 -> 1.0.
C27_NotaDeNivel ==
    qpc = "salida" =>
        /\ Len(lineas) = Len(niveles)
        /\ \A k \in 1..Len(niveles) :
              /\ lineas[k].porcentaje = niveles[k]
              /\ 50 * lineas[k].nota - 25 <= 500 + 30 * niveles[k]
              /\ 500 + 30 * niveles[k] < 50 * lineas[k].nota + 25
              /\ niveles[k] = 100 => lineas[k].nota = 70
              /\ niveles[k] = 80 => lineas[k].nota = 58
              /\ niveles[k] = 60 => lineas[k].nota = 46
              /\ niveles[k] = 40 => lineas[k].nota = 34
              /\ niveles[k] = 20 => lineas[k].nota = 22
              /\ niveles[k] = 0 => lineas[k].nota = 10

\* The prompt of a criterion whose levels are 80 and 20 percent, in that
\* order: grades 5.8 and 2.2.
C27_Witness ==
    /\ qpc = "salida"
    /\ niveles = <<80, 20>>
    /\ lineas = <<[porcentaje |-> 80, nota |-> 58], [porcentaje |-> 20, nota |-> 22]>>

(***************************************************************************)
(* Claims about the parallel batch (Spec).                                 *)
(***************************************************************************)
\* s is t or t with one element appended.
CreceEnUno(s, t) == Len(t) <= Len(s) /\ Len(s) <= Len(t) + 1 /\ SubSeq(s, 1, Len(t)) = t

\* C28: in a parallel run the successes list, the failures list and
\* self.resultados change only in a step of the collecting loop, which takes
\* one completed future; a step of a worker leaves them as they are, and the
\* collecting step keeps every entry already there and adds exactly one.
C28_SoloElRecolector ==
    [][paralelo > 1 =>
         /\ (\E i \in DOMAIN futuros :
                futuros[i] \in {"pendiente", "corriendo"} /\ futuros'[i] # futuros[i])
              => UNCHANGED <<evaluaciones_exitosas, evaluaciones_fallidas, resultados>>
         /\ <<evaluaciones_exitosas, evaluaciones_fallidas, resultados>>' #
                <<evaluaciones_exitosas, evaluaciones_fallidas, resultados>>
              => /\ \E i \in DOMAIN futuros :
                      /\ futuros[i] = "terminado"
                      /\ futuros' = [futuros EXCEPT ![i] = "recogido"]
                 /\ CreceEnUno(evaluaciones_exitosas', evaluaciones_exitosas)
                 /\ CreceEnUno(evaluaciones_fallidas', evaluaciones_fallidas)
                 /\ CreceEnUno(resultados', resultados)
                 /\ Len(evaluaciones_exitosas') + Len(evaluaciones_fallidas') =
                    Len(evaluaciones_exitosas) + Len(evaluaciones_fallidas) + 1
                 /\ Len(resultados') = Len(evaluaciones_exitosas')
    ]_vars

\* Two workers are running while the collecting loop has already stored the
\* result of a third subject.
C28_Witness ==
    /\ pc = "as_completed"
    /\ paralelo = 2
    /\ Len(futuros) = 3
    /\ Cardinality({i \in DOMAIN futuros : futuros[i] = "corriendo"}) = 2
    /\ \E i \in DOMAIN futuros : futuros[i] = "recogido"
    /\ Len(resultados) = 1

====
